---- MODULE Spec2Model ----
(***************************************************************************)
(* A model of novfmt's edit and rewrite engines (internal/epub/edit.go):   *)
(* EditEPUB, RewriteEPUB, compileRules, rewriteMetadata, rewriteXHTMLFile,  *)
(* selectorMatches, applyRuleToText and applyMetadataPatch.                 *)
(*                                                                         *)
(* A Go string is a sequence of one-character strings; a file system path  *)
(* is a short name; an archive is the record of what it holds.             *)
(***************************************************************************)
EXTENDS Integers, Sequences, FiniteSets, TLC

(***************************************************************************)
(* Bounds of the model.                                                    *)
(***************************************************************************)
\* longest selector string handed to compileRules in SpecCompile
MaxSelLen == 4
\* number of tokens the XML decoder delivers before end of file in SpecStream
MaxTokens == 4

(***************************************************************************)
(* Go's strings package, as edit.go uses it.                               *)
(***************************************************************************)
\* Let(e, F) is F(e) with e evaluated once: the value of a local variable
Let(e, F(_)) == CHOOSE y \in {F(x) : x \in {e}} : TRUE

\* a nil pointer is the empty sequence, a pointer to x the sequence <<x>>
Nil == <<>>

Ptr(x) == <<x>>

Deref(p) == p[1]

\* a nil error, and an error with its message and the pattern it names
NoErr == [msg |-> "", pat |-> <<>>]

Err(msg) == [msg |-> msg, pat |-> <<>>]

\* unicode.ToLower on the one-byte characters of the model's alphabet
ToLowerCh(c) ==
  CASE c = "A" -> "a"
    [] c = "B" -> "b"
    [] c = "E" -> "e"
    [] c = "K" -> "k"
    [] c = "P" -> "p"
    [] c = "N" -> "n"
    [] c = "U" -> "u"
    [] c = "V" -> "v"
    [] OTHER -> c

\* A string is a sequence of bytes.  A character of more than one byte is the
\* sequence of its UTF-8 bytes, each written as two hexadecimal digits.
\* U+212A KELVIN SIGN: three bytes, and its lower case is the one byte k
KelvinSign == <<"E2", "84", "AA">>

\* U+023A LATIN CAPITAL LETTER A WITH STROKE: two bytes, and its lower case
\* U+2C65 takes three
StrokeA == <<"C8", "BA">>

SmallStrokeA == <<"E2", "B1", "A5">>

\* strings.ToLower: the lower case of every character, character by character
RECURSIVE ToLower(_)
ToLower(s) ==
  IF s = <<>> THEN <<>>
  ELSE IF Len(s) >= 3 /\ SubSeq(s, 1, 3) = KelvinSign
  THEN <<"k">> \o ToLower(SubSeq(s, 4, Len(s)))
  ELSE IF Len(s) >= 2 /\ SubSeq(s, 1, 2) = StrokeA
  THEN SmallStrokeA \o ToLower(SubSeq(s, 3, Len(s)))
  ELSE <<ToLowerCh(Head(s))>> \o ToLower(Tail(s))

IsSpace(c) == c = " "

\* s[i:j] of Go (0-based, half open) on a 1-based sequence
Slice(s, i, j) == SubSeq(s, i + 1, j)

RECURSIVE TrimLeft(_)
TrimLeft(s) == IF s # <<>> /\ IsSpace(Head(s)) THEN TrimLeft(Tail(s)) ELSE s

RECURSIVE TrimRight(_)
TrimRight(s) ==
  IF s # <<>> /\ IsSpace(s[Len(s)]) THEN TrimRight(SubSeq(s, 1, Len(s) - 1)) ELSE s

\* strings.TrimSpace
TrimSpace(s) == TrimRight(TrimLeft(s))

\* strings.Contains(s, c) for a one-character c
Contains(s, c) == \E i \in 1..Len(s) : s[i] = c

\* position (1-based) of the first c in s, 0 when there is none
FirstOf(s, c) ==
  IF Contains(s, c) THEN CHOOSE i \in 1..Len(s) : s[i] = c /\ \A k \in 1..(i - 1) : s[k] # c
  ELSE 0

\* strings.Split(s, sep) for a one-character separator
RECURSIVE Split(_, _)
Split(s, sep) ==
  Let(FirstOf(s, sep), LAMBDA i :
    IF i = 0 THEN <<s>>
    ELSE Let(SubSeq(s, i + 1, Len(s)), LAMBDA rest :
           <<SubSeq(s, 1, i - 1)>> \o Split(rest, sep)))

\* strings.SplitN(s, sep, 2) for a one-character separator
SplitN2(s, sep) ==
  Let(FirstOf(s, sep), LAMBDA i :
    IF i = 0 THEN <<s>> ELSE <<SubSeq(s, 1, i - 1), SubSeq(s, i + 1, Len(s))>>)

\* strings.Fields: the maximal runs of non-space characters
RECURSIVE Fields(_)
Fields(s) ==
  Let(TrimLeft(s), LAMBDA t :
    Let(FirstOf(t, " "), LAMBDA i :
      IF t = <<>> THEN <<>>
      ELSE IF i = 0 THEN <<t>>
      ELSE <<SubSeq(t, 1, i - 1)>> \o Fields(SubSeq(t, i + 1, Len(t)))))

\* strings.HasPrefix(s[i:], f), i 0-based
HasPrefixAt(s, i, f) ==
  /\ i + Len(f) <= Len(s)
  /\ \A k \in 1..Len(f) : s[i + k] = f[k]

\* strings.Index(s[i:], f), as an offset into s[i:]; -1 when f does not occur
Index(s, i, f) ==
  IF \E j \in i..Len(s) : HasPrefixAt(s, j, f)
  THEN (CHOOSE j \in i..Len(s) :
          HasPrefixAt(s, j, f) /\ \A k \in i..(j - 1) : ~HasPrefixAt(s, k, f)) - i
  ELSE -1

\* strings.Count(s[i:], f) for a non-empty f: the non-overlapping occurrences
RECURSIVE CountFrom(_, _, _)
CountFrom(s, i, f) ==
  Let(Index(s, i, f), LAMBDA j :
    IF j < 0 THEN 0 ELSE 1 + CountFrom(s, i + j + Len(f), f))

Count(s, f) == CountFrom(s, 0, f)

\* strings.Replace(s, f, r, 1): only the first occurrence
ReplaceFirst(s, f, r) ==
  IF f = <<>> \/ Index(s, 0, f) < 0 THEN s
  ELSE Slice(s, 0, Index(s, 0, f)) \o r \o Slice(s, Index(s, 0, f) + Len(f), Len(s))

\* strings.ReplaceAll(s, f, r) for a non-empty f
RECURSIVE ReplaceFrom(_, _, _, _)
ReplaceFrom(s, i, f, r) ==
  Let(Index(s, i, f), LAMBDA j :
    IF j < 0 THEN Slice(s, i, Len(s))
    ELSE Slice(s, i, i + j) \o r \o ReplaceFrom(s, i + j + Len(f), f, r))

ReplaceAll(s, f, r) == ReplaceFrom(s, 0, f, r)

(***************************************************************************)
(* Go's regexp package on the patterns of the model.  A pattern is a       *)
(* sequence of atoms: a letter matches itself, the atom "(?i)" at the head  *)
(* is the inline case-insensitivity flag, and the atom "(" opens a group    *)
(* that is never closed, which regexp.Compile rejects.                      *)
(***************************************************************************)
InlineFlag == "(?i)"

\* strings.HasPrefix(pat, "(?i)")
HasInlineFlag(pat) == pat # <<>> /\ Head(pat) = InlineFlag

\* regexp.Compile: Nil is the error
regexpCompile(pat) ==
  IF Contains(pat, "(") THEN Nil
  ELSE IF HasInlineFlag(pat) THEN Ptr([fold |-> TRUE, lit |-> Tail(pat)])
  ELSE Ptr([fold |-> FALSE, lit |-> pat])

\* the text a compiled pattern is matched against
reView(re, s) == IF re.fold THEN ToLower(s) ELSE s

reNeedle(re) == IF re.fold THEN ToLower(re.lit) ELSE re.lit

\* len(re.FindAllStringIndex(s, -1)); an empty pattern matches at every offset
reFindAllCount(re, s) ==
  IF re.lit = <<>> THEN Len(s) + 1 ELSE Count(reView(re, s), reNeedle(re))

\* re.ReplaceAllString(s, repl): the matched stretches of s give way to repl
RECURSIVE reReplaceFrom(_, _, _, _)
reReplaceFrom(re, s, i, repl) ==
  Let(Index(reView(re, s), i, reNeedle(re)), LAMBDA j :
    IF j < 0 THEN Slice(s, i, Len(s))
    ELSE Slice(s, i, i + j) \o repl \o reReplaceFrom(re, s, i + j + Len(re.lit), repl))

RECURSIVE Interleave(_, _)
Interleave(s, repl) ==
  IF s = <<>> THEN repl ELSE repl \o <<Head(s)>> \o Interleave(Tail(s), repl)

reReplaceAllString(re, s, repl) ==
  IF re.lit = <<>> THEN Interleave(s, repl) ELSE reReplaceFrom(re, s, 0, repl)

(***************************************************************************)
(* Rules and their compilation.                                            *)
(***************************************************************************)
\* type RewriteRule
RewriteRule(find, replace, regex, ignoreCase, selectors) ==
  [Find |-> find, Replace |-> replace, Regex |-> regex,
   IgnoreCase |-> ignoreCase, Selectors |-> selectors]

\* type compiledSelector
compiledSelector(tag, class) == [Tag |-> tag, Class |-> class]

\* compileRules, lines 423-432: one comma-separated part of a selector string
compilePart(part) ==
  Let(part, LAMBDA token :
    IF Contains(token, ".")
    THEN Let(SplitN2(token, "."), LAMBDA parts :
           compiledSelector(ToLower(TrimSpace(parts[1])), TrimSpace(parts[2])))
    ELSE compiledSelector(ToLower(token), <<>>))

\* compileRules, lines 418-433: the parts of one selector string
RECURSIVE compileParts(_)
compileParts(parts) ==
  IF parts = <<>> THEN <<>>
  ELSE Let(TrimSpace(Head(parts)), LAMBDA part :
         (IF part = <<>> THEN <<>> ELSE <<compilePart(part)>>)
           \o compileParts(Tail(parts)))

\* compileRules, lines 413-434: the selector strings of one rule
RECURSIVE compileSelectors(_)
compileSelectors(sels) ==
  IF sels = <<>> THEN <<>>
  ELSE Let(TrimSpace(Head(sels)), LAMBDA sel :
         (IF sel = <<>> THEN <<>> ELSE Let(Split(sel, ","), LAMBDA parts : compileParts(parts)))
           \o compileSelectors(Tail(sels)))

\* compileRules, lines 401-405: the pattern handed to regexp.Compile
regexPattern(r) ==
  IF r.IgnoreCase /\ ~HasInlineFlag(r.Find) THEN <<InlineFlag>> \o r.Find ELSE r.Find

\* compileRules: [err, out]; without an error out is the compiled rules, in rule
\* order; with one it is nil
RECURSIVE compileRulesFrom(_, _)
compileRulesFrom(rules, out) ==
  IF rules = <<>> THEN [err |-> NoErr, out |-> out]
  ELSE Let(Head(rules), LAMBDA r :
         Let(IF r.Regex THEN regexpCompile(regexPattern(r)) ELSE Nil, LAMBDA re :
           IF r.Find = <<>>
           THEN [err |-> Err("rule missing find pattern"), out |-> Nil]
           ELSE IF r.Regex /\ re = Nil
           THEN [err |-> [msg |-> "compile regex", pat |-> regexPattern(r)], out |-> Nil]
           ELSE Let(Append(out, [raw |-> r, re |-> re,
                                 selectors |-> compileSelectors(r.Selectors)]),
                    LAMBDA grown : compileRulesFrom(Tail(rules), grown))))

compileRules(rules) == compileRulesFrom(rules, <<>>)

\* metadataApplicableRules without the test of line 444
metadataApplicableRulesUnfiltered(rules) == rules

\* metadataApplicableRules: the compiled rules without selectors, in order
metadataApplicableRules(rules) == SelectSeq(rules, LAMBDA r : Len(r.selectors) = 0)

(***************************************************************************)
(* Text matching.                                                          *)
(***************************************************************************)
\* applyRuleToText, lines 677-693: the case-insensitive scan from offset i
RECURSIVE ciScan(_, _, _, _, _)
ciScan(s, lower, findLower, raw, i) ==
  Let(Index(lower, i, findLower), LAMBDA j :
    IF j < 0 THEN [buf |-> Slice(s, i, Len(s)), matches |-> 0]
    ELSE Let(ciScan(s, lower, findLower, raw, (j + i) + Len(raw.Find)), LAMBDA rest :
           [buf |-> Slice(s, i, j + i) \o raw.Replace \o rest.buf,
            matches |-> rest.matches + 1]))

\* applyRuleToText, lines 683-692: does the scan from offset i stop in a
\* run-time panic?  lower[i:] panics for i > len(lower), s[i:] for i > len(s)
\* and s[i:j] for j > len(s)
RECURSIVE ciScanPanics(_, _, _, _, _)
ciScanPanics(s, lower, findLower, raw, i) ==
  IF i > Len(lower) THEN TRUE
  ELSE Let(Index(lower, i, findLower), LAMBDA j :
         IF j < 0 THEN i > Len(s)
         ELSE (j + i > Len(s)) \/ ciScanPanics(s, lower, findLower, raw, (j + i) + Len(raw.Find)))

\* applyRuleToText: does the call panic?  Only the case-insensitive scan slices
applyRuleToTextPanics(s, rule) ==
  /\ s # <<>>
  /\ rule.re = Nil
  /\ rule.raw.IgnoreCase
  /\ ToLower(rule.raw.Find) # <<>>
  /\ ciScanPanics(s, ToLower(s), ToLower(rule.raw.Find), rule.raw, 0)

\* applyRuleToText: [text, mc]
applyRuleToText(s, rule) ==
  IF s = <<>> THEN [text |-> s, mc |-> 0]
  ELSE IF rule.re # Nil
  THEN Let(reFindAllCount(Deref(rule.re), s), LAMBDA matches :
         IF matches = 0 THEN [text |-> s, mc |-> 0]
         ELSE [text |-> reReplaceAllString(Deref(rule.re), s, rule.raw.Replace),
               mc |-> matches])
  ELSE IF ~rule.raw.IgnoreCase
  THEN Let(Count(s, rule.raw.Find), LAMBDA count :
         IF count = 0 THEN [text |-> s, mc |-> 0]
         ELSE [text |-> ReplaceAll(s, rule.raw.Find, rule.raw.Replace), mc |-> count])
  ELSE Let(ToLower(rule.raw.Find), LAMBDA findLower :
         IF findLower = <<>> THEN [text |-> s, mc |-> 0]
         ELSE Let(ciScan(s, ToLower(s), findLower, rule.raw, 0), LAMBDA scan :
                IF scan.matches = 0 THEN [text |-> s, mc |-> 0]
                ELSE [text |-> scan.buf, mc |-> scan.matches]))

\* applyRulesToText: every rule in order, each on the output of the one before
RECURSIVE applyRulesToText(_, _)
applyRulesToText(s, rules) ==
  IF rules = <<>> THEN [text |-> s, mc |-> 0]
  ELSE Let(applyRuleToText(s, Head(rules)), LAMBDA first :
         Let(applyRulesToText(first.text, Tail(rules)), LAMBDA rest :
           [text |-> rest.text, mc |-> first.mc + rest.mc]))

(***************************************************************************)
(* Selector matching.  An element is [Local, Attr], Attr a sequence of     *)
(* [Space, Local, Value]; attribute names are opaque, so they are plain     *)
(* strings, while tag names and attribute values are character sequences.   *)
(***************************************************************************)
ClassName == "class"

\* selectorMatches, lines 610-616: the value of the first class attribute
classAttrOf(el) ==
  LET hits == SelectSeq(el.Attr, LAMBDA a : a.Local = ClassName)
  IN  IF hits = <<>> THEN <<>> ELSE Head(hits).Value

\* selectorMatches, lines 617-620: the whitespace-separated class tokens
classesOf(el) == Let(Fields(classAttrOf(el)), LAMBDA tokens : {tokens[i] : i \in 1..Len(tokens)})

\* selectorMatches, lines 621-631, without the class test of lines 625-629
selectorHitsTagOnly(sel, tag, classes) == ~(sel.Tag # <<>> /\ sel.Tag # tag)

\* selectorMatches, lines 621-631: one selector against one element
selectorHits(sel, tag, classes) ==
  /\ ~(sel.Tag # <<>> /\ sel.Tag # tag)
  /\ ~(sel.Class # <<>> /\ sel.Class \notin classes)

\* selectorMatches
selectorMatches(rule, el) ==
  IF Len(rule.selectors) = 0 THEN TRUE
  ELSE Let(ToLower(el.Local), LAMBDA tag :
         Let(classesOf(el), LAMBDA classes :
           \E i \in 1..Len(rule.selectors) : selectorHits(rule.selectors[i], tag, classes)))

\* selectorInactive
selectorInactive(rule, st) ==
  IF Len(rule.selectors) = 0 THEN FALSE ELSE st.active = 0

\* stripXMLNSAttrs: the attributes that are no namespace declarations
stripXMLNSAttrs(attrs) ==
  SelectSeq(attrs, LAMBDA a : ~(a.Local = "xmlns" \/ a.Space = "xmlns"))

(***************************************************************************)
(* The streaming pass of rewriteXHTMLFile.  The decoder delivers tokens:   *)
(* [kind |-> "start", el], [kind |-> "end"], [kind |-> "text", data] and     *)
(* [kind |-> "other"] (comments, directives, processing instructions).      *)
(* Go's decoder only delivers an end element that closes the innermost open *)
(* element, fails on an end element with nothing open, and fails at the end *)
(* of the input while an element is open.                                  *)
(***************************************************************************)
StartTok(el) == [kind |-> "start", el |-> el]

EndTok == [kind |-> "end"]

TextTok(data) == [kind |-> "text", data |-> data]

OtherTok == [kind |-> "other"]

\* type ruleState
ruleState(depthStack, active) == [depthStack |-> depthStack, active |-> active]

\* rewriteXHTMLFile, lines 515-520: the pass before its first token
passInit(rules) ==
  [stack |-> <<>>,
   states |-> [i \in 1..Len(rules) |-> ruleState(<<>>, 0)],
   totalMatches |-> 0,
   changed |-> FALSE,
   out |-> <<>>]

\* rewriteXHTMLFile, lines 536-540: one rule's state after a start element
pushState(st, match) ==
  ruleState(Append(st.depthStack, match), IF match THEN st.active + 1 ELSE st.active)

\* rewriteXHTMLFile, lines 532-545: case xml.StartElement
onStartElement(ps, rules, el) ==
  [ps EXCEPT
     !.stack = Append(@, el.Local),
     !.states = [i \in 1..Len(rules) |-> pushState(ps.states[i], selectorMatches(rules[i], el))],
     !.out = Append(@, StartTok([el EXCEPT !.Attr = stripXMLNSAttrs(@)]))]

\* lines 552-560 with the counter lowered whatever the popped entry is
popStateAlwaysDecrementing(st) ==
  IF Len(st.depthStack) = 0 THEN st
  ELSE ruleState(SubSeq(st.depthStack, 1, Len(st.depthStack) - 1),
                 IF st.active > 0 THEN st.active - 1 ELSE st.active)

\* rewriteXHTMLFile, lines 552-560: one rule's state after an end element
popState(st) ==
  IF Len(st.depthStack) = 0 THEN st
  ELSE LET last == st.depthStack[Len(st.depthStack)]
       IN  ruleState(SubSeq(st.depthStack, 1, Len(st.depthStack) - 1),
                     IF last /\ st.active > 0 THEN st.active - 1 ELSE st.active)

\* rewriteXHTMLFile, lines 547-564: case xml.EndElement
onEndElement(ps, rules) ==
  [ps EXCEPT
     !.stack = IF Len(@) > 0 THEN SubSeq(@, 1, Len(@) - 1) ELSE @,
     !.states = [i \in 1..Len(rules) |-> popState(ps.states[i])],
     !.out = Append(@, EndTok)]

\* lines 569-578 with every rule run on the text of the token itself
RECURSIVE applyActiveOnOriginal(_, _, _, _)
applyActiveOnOriginal(text, rules, states, i) ==
  IF i > Len(rules) THEN [text |-> text, mc |-> 0]
  ELSE IF selectorInactive(rules[i], states[i])
  THEN applyActiveOnOriginal(text, rules, states, i + 1)
  ELSE Let(applyRuleToText(text, rules[i]), LAMBDA r :
         Let(applyActiveOnOriginal(text, rules, states, i + 1), LAMBDA rest :
           [text |-> IF rest.mc > 0 THEN rest.text ELSE r.text,
            mc |-> (IF r.mc > 0 THEN r.mc ELSE 0) + rest.mc]))

\* rewriteXHTMLFile, lines 569-578: the rules from the i-th on, on one text token
RECURSIVE applyActive(_, _, _, _)
applyActive(text, rules, states, i) ==
  IF i > Len(rules) THEN [text |-> text, mc |-> 0]
  ELSE IF selectorInactive(rules[i], states[i]) THEN applyActive(text, rules, states, i + 1)
  ELSE Let(applyRuleToText(text, rules[i]), LAMBDA r :
         Let(applyActive(IF r.mc > 0 THEN r.text ELSE text, rules, states, i + 1), LAMBDA rest :
           [text |-> rest.text, mc |-> (IF r.mc > 0 THEN r.mc ELSE 0) + rest.mc]))

\* lines 566-584 with changed set by a match instead of the comparison of
\* lines 579-581
onCharDataChangedOnMatch(ps, rules, data) ==
  Let(applyActive(data, rules, ps.states, 1), LAMBDA r :
    [ps EXCEPT
       !.totalMatches = @ + r.mc,
       !.changed = @ \/ (r.mc > 0),
       !.out = Append(@, TextTok(r.text))])

\* rewriteXHTMLFile, lines 566-584: case xml.CharData
onCharData(ps, rules, data) ==
  Let(applyActive(data, rules, ps.states, 1), LAMBDA r :
    [ps EXCEPT
       !.totalMatches = @ + r.mc,
       !.changed = @ \/ (r.text # data),
       !.out = Append(@, TextTok(r.text))])

\* rewriteXHTMLFile, lines 586-589: any other token
onOther(ps, tok) == [ps EXCEPT !.out = Append(@, tok)]

\* rewriteXHTMLFile, lines 531-590: the switch on one token
onToken(ps, rules, tok) ==
  CASE tok.kind = "start" -> onStartElement(ps, rules, tok.el)
    [] tok.kind = "end" -> onEndElement(ps, rules)
    [] tok.kind = "text" -> onCharData(ps, rules, tok.data)
    [] OTHER -> onOther(ps, tok)

\* rewriteXHTMLFile, lines 523-529: does dec.Token() fail on the next token?
\* toks is what is left of the input, depth the number of open elements
decodeFails(toks, depth) ==
  IF toks = <<>> THEN depth > 0 ELSE Head(toks).kind = "end" /\ depth = 0

\* rewriteXHTMLFile, lines 522-591: the token loop; Nil when the decoder fails
RECURSIVE tokenLoop(_, _, _)
tokenLoop(ps, rules, toks) ==
  IF decodeFails(toks, Len(ps.stack)) THEN Nil
  ELSE IF toks = <<>> THEN Ptr(ps)
  ELSE Let(onToken(ps, rules, Head(toks)), LAMBDA next : tokenLoop(next, rules, Tail(toks)))

\* rewriteXHTMLFile, lines 597-601: what the pass returns
passResult(ps) ==
  IF ~ps.changed
  THEN [matches |-> ps.totalMatches, changed |-> FALSE, rewritten |-> Nil, err |-> NoErr]
  ELSE [matches |-> ps.totalMatches, changed |-> TRUE, rewritten |-> Ptr(ps.out),
        err |-> NoErr]

\* rewriteXHTMLFile on the tokens of a file that could be read
rewriteXHTMLFile(toks, rules) ==
  Let(passInit(rules), LAMBDA start :
    Let(tokenLoop(start, rules, toks), LAMBDA end :
      IF end = Nil
      THEN [matches |-> 0, changed |-> FALSE, rewritten |-> Nil, err |-> Err("xml syntax")]
      ELSE passResult(Deref(end))))

\* what the decoder delivers for a file the encoder wrote: text tokens that were
\* written one after the other come back as one, and an empty one not at all
RECURSIVE redecode(_)
redecode(toks) ==
  IF toks = <<>> THEN <<>>
  ELSE IF Head(toks).kind # "text" THEN <<Head(toks)>> \o redecode(Tail(toks))
  ELSE IF Len(toks) > 1 /\ toks[2].kind = "text"
  THEN Let(<<TextTok(toks[1].data \o toks[2].data)>> \o SubSeq(toks, 3, Len(toks)),
           LAMBDA merged : redecode(merged))
  ELSE IF Head(toks).data = <<>> THEN redecode(Tail(toks))
  ELSE <<Head(toks)>> \o redecode(Tail(toks))

(***************************************************************************)
(* Package documents, volumes and the file system.                         *)
(***************************************************************************)
\* type DCMeta
DCMeta(id, value) == [ID |-> id, Role |-> "", FileAs |-> "", Value |-> value]

\* type MetaNode
MetaNode(property, value) == [Property |-> property, Name |-> "", Content |-> "", Value |-> value]

\* type ManifestItem
ManifestItem(id, href, mediaType, properties) ==
  [ID |-> id, Href |-> href, MediaType |-> mediaType, Properties |-> properties]

XHTML == "application/xhtml+xml"

\* what a path of the file system holds
Absent == [kind |-> "absent"]

XhtmlFile(toks) == [kind |-> "xhtml", toks |-> toks]

OtherFile(data) == [kind |-> "data", data |-> data]

\* an extracted tree: the package document as its file holds it, and the files by href
Tree(opf, files) == [kind |-> "tree", opf |-> opf, files |-> files]

\* the paths of the model: the input container, a separate output container, the
\* temporary archive os.CreateTemp makes beside the output, the two dump targets,
\* the navigation replacement, and the extracted working tree
InputPath == "book.epub"

OutputPath == "out.epub"

TempPath == "novfmt-tmp.epub"

DumpMetaPath == "meta.json"

DumpNavPath == "nav.out"

NavSrcPath == "nav.src"

WorkDir == "workdir"

Paths == {InputPath, OutputPath, TempPath, DumpMetaPath, DumpNavPath, NavSrcPath, WorkDir}

\* the navigation item of a package document: its href, "" when there is none
navHrefOf(pkg) ==
  LET hits == SelectSeq(pkg.Manifest, LAMBDA it : it.Properties = "nav")
  IN  IF hits = <<>> THEN "" ELSE Head(hits).Href

\* loadVolume: extracts the container into a fresh working tree and parses its
\* package document; it fails on a path that holds no EPUB container
loadVolume(d, input) ==
  IF d[input].kind # "epub" THEN [err |-> Err("open epub"), vol |-> Nil, disk |-> d]
  ELSE [err |-> NoErr,
        vol |-> Ptr([PackageDoc |-> d[input].tree.opf, NavHref |-> navHrefOf(d[input].tree.opf)]),
        disk |-> [d EXCEPT ![WorkDir] = d[input].tree]]

\* writePackage: serialises the package document over its file in the working tree
writePackage(d, pkg) == [d EXCEPT ![WorkDir].opf = pkg]

\* the content of the mimetype entry of an EPUB container
MimetypeContent == "application/epub+zip"

\* an entry of a zip archive
zipEntry(name, method, content) == [name |-> name, method |-> method, content |-> content]

\* the names of a set of files in the order the walk of the tree visits them
RECURSIVE walkOrder(_)
walkOrder(names) ==
  IF names = {} THEN <<>>
  ELSE Let(CHOOSE n \in names : TRUE, LAMBDA n : <<n>> \o walkOrder(names \ {n}))

\* the entries of the archive packed from a tree: the mimetype entry first and
\* stored, then the package document and the files, deflated
zipEntries(tree) ==
  <<zipEntry("mimetype", "store", MimetypeContent),
    zipEntry("content.opf", "deflate", tree.opf)>>
  \o Let(walkOrder(DOMAIN tree.files), LAMBDA names :
        [i \in 1..Len(names) |-> zipEntry(names[i], "deflate", tree.files[names[i]])])

\* writeZip: packs the working tree into the archive at path tmp
writeZip(d, tmp) ==
  [d EXCEPT ![tmp] = [kind |-> "epub", tree |-> d[WorkDir], entries |-> zipEntries(d[WorkDir])]]

\* an archive that writeZip left half written
PartialArchive == [kind |-> "partial"]

\* os.Rename(tmp, out)
rename(d, tmp, out) == [d EXCEPT ![out] = d[tmp], ![tmp] = Absent]

(***************************************************************************)
(* rewriteMetadata.                                                        *)
(***************************************************************************)
\* rewriteMetadata, lines 455-469: the closure apply on one metadata list
RECURSIVE applyNodes(_, _, _)
applyNodes(nodes, rules, mutate) ==
  IF nodes = <<>> THEN [nodes |-> <<>>, matches |-> 0, localChanged |-> FALSE]
  ELSE Let(Head(nodes).Value, LAMBDA orig :
         Let(applyRulesToText(orig, rules), LAMBDA r :
           Let(applyNodes(Tail(nodes), rules, mutate), LAMBDA rest :
             [nodes |-> <<IF r.mc > 0 /\ mutate THEN [Head(nodes) EXCEPT !.Value = r.text]
                          ELSE Head(nodes)>> \o rest.nodes,
              matches |-> (IF r.mc > 0 THEN r.mc ELSE 0) + rest.matches,
              localChanged |-> (r.mc > 0) \/ rest.localChanged])))

\* rewriteMetadata: [meta, matches, changed]
rewriteMetadata(meta, rules, mutate) ==
  Let(applyNodes(meta.Titles, rules, mutate), LAMBDA t :
  Let(applyNodes(meta.Languages, rules, mutate), LAMBDA l :
  Let(applyNodes(meta.Identifiers, rules, mutate), LAMBDA i :
  Let(applyNodes(meta.Descriptions, rules, mutate), LAMBDA d :
  Let(applyNodes(meta.Creators, rules, mutate), LAMBDA c :
    [meta |-> [meta EXCEPT !.Titles = t.nodes, !.Languages = l.nodes,
                           !.Identifiers = i.nodes, !.Descriptions = d.nodes,
                           !.Creators = c.nodes],
     matches |-> t.matches + l.matches + i.matches + d.matches + c.matches,
     changed |-> t.localChanged \/ l.localChanged \/ i.localChanged
                   \/ d.localChanged \/ c.localChanged])))))

(***************************************************************************)
(* The books and rule lists the calls of the model are drawn from.         *)
(***************************************************************************)
Note == <<"n", "o", "t", "e">>

ClassAttr(value) == [Space |-> "", Local |-> ClassName, Value |-> value]

XmlnsAttr == [Space |-> "", Local |-> "xmlns", Value |-> <<"h">>]

El(local, attr) == [Local |-> local, Attr |-> attr]

PNote == El(<<"p">>, <<ClassAttr(Note)>>)

PPlain == El(<<"p">>, <<>>)

\* a book with every metadata list filled, a navigation document and three
\* content documents
BookA ==
  Tree([Metadata |->
          [Titles |-> <<DCMeta("", <<"a", "b">>)>>,
           Creators |-> <<DCMeta("", <<"A">>), DCMeta("", <<"b", "a">>)>>,
           Languages |-> <<DCMeta("", <<"e", "n">>)>>,
           Identifiers |-> <<DCMeta("BookId", <<"a", "1">>), DCMeta("isbn", <<"b">>)>>,
           Descriptions |-> <<DCMeta("", <<"a", "a", "b", "b">>)>>,
           Meta |-> <<MetaNode("dcterms:modified", "2020-01-01T00:00:00Z"),
                      MetaNode("rendition:layout", "reflowable")>>],
        Manifest |->
          <<ManifestItem("nav", "nav.xhtml", XHTML, "nav"),
            ManifestItem("chap", "chapter.xhtml", XHTML, ""),
            ManifestItem("cover", "cover.png", "image/png", ""),
            ManifestItem("chap2", "chapter2.xhtml", XHTML, "")>>,
        Spine |-> <<"chap", "chap2">>],
       [h \in {"nav.xhtml", "chapter.xhtml", "cover.png", "chapter2.xhtml"} |->
          CASE h = "nav.xhtml" ->
                 XhtmlFile(<<StartTok(El(<<"n", "a", "v">>, <<XmlnsAttr>>)),
                             TextTok(<<"b", "c">>), EndTok>>)
            [] h = "chapter.xhtml" ->
                 XhtmlFile(<<StartTok(PNote), TextTok(<<"a", "b">>),
                             StartTok(El(<<"i">>, <<>>)), TextTok(<<"a">>), EndTok, EndTok,
                             StartTok(PPlain), TextTok(<<"a", "b">>), EndTok>>)
            [] h = "cover.png" -> OtherFile("png")
            [] OTHER -> XhtmlFile(<<StartTok(PPlain), TextTok(<<"b">>), EndTok>>)])

\* an EPUB 2 style book: no navigation document, no meta entries, empty metadata
\* lists but one title, and one content document
BookB ==
  Tree([Metadata |->
          [Titles |-> <<DCMeta("t", <<"A", "b">>)>>,
           Creators |-> <<>>,
           Languages |-> <<>>,
           Identifiers |-> <<>>,
           Descriptions |-> <<>>,
           Meta |-> <<>>],
        Manifest |-> <<ManifestItem("c1", "c1.xhtml", XHTML, "")>>,
        Spine |-> <<"c1">>],
       [h \in {"c1.xhtml"} |->
          XhtmlFile(<<StartTok(El(<<"P">>, <<ClassAttr(<<"x", " ">> \o Note)>>)),
                      TextTok(<<"A">>), EndTok, OtherTok>>)])

Books == {BookA, BookB}

\* a literal rule
Lit(find, replace, ignoreCase, selectors) ==
  RewriteRule(find, replace, FALSE, ignoreCase, selectors)

PNoteSel == <<"p", ".">> \o Note

RuleLists ==
  { <<>>,
    <<Lit(<<"a">>, <<"b">>, FALSE, <<>>)>>,
    <<Lit(<<"a">>, <<"b">>, FALSE, <<PNoteSel>>)>>,
    <<Lit(<<"a", "b">>, <<>>, TRUE, <<>>)>>,
    <<Lit(<<"a">>, <<"b">>, FALSE, <<>>), Lit(<<>>, <<"x">>, FALSE, <<>>)>>,
    <<RewriteRule(<<"(">>, <<>>, TRUE, TRUE, <<>>)>>,
    <<Lit(<<"b">>, <<"b">>, FALSE, <<>>)>>,
    <<Lit(<<"z">>, <<"y">>, FALSE, <<>>)>>,
    <<Lit(<<"a">>, <<"b">>, FALSE, <<PNoteSel>>), Lit(<<"b">>, <<"c">>, FALSE, <<>>)>>,
    <<RewriteRule(<<"a">>, <<"x">>, TRUE, TRUE, <<>>), Lit(<<"e">>, <<"x">>, FALSE, << <<" ">> >>)>> }

\* type RewriteScope
RewriteScopeBody == "body"

RewriteScopeMeta == "meta"

RewriteScopeAll == "all"

Scopes == {RewriteScopeBody, RewriteScopeMeta, RewriteScopeAll}

\* type RewriteOptions
RewriteOptions == [OutPath : {"", OutputPath}, Scope : Scopes, Rules : RuleLists, DryRun : BOOLEAN]

\* type RewriteStats
RewriteStats(filesChanged, matchCount) == [FilesChanged |-> filesChanged, MatchCount |-> matchCount]

(***************************************************************************)
(* The state of one call of RewriteEPUB or EditEPUB.                       *)
(*   call      the operation and its arguments                             *)
(*   pc        the position of the call in its code                        *)
(*   err       the error the call returned (NoErr before, and on success)   *)
(*   stats     RewriteEPUB's stats                                         *)
(*   compiled  the compiled rules                                          *)
(*   vol       the loaded volume (nil before loadVolume)                   *)
(*   disk      what every path holds                                       *)
(*   idx       the manifest item the body loop is at                       *)
(*   tmpPath   the local tmpPath                                           *)
(*   metaChanged, navChanged   EditEPUB's locals                          *)
(*   ps        the state of the streaming pass over one file               *)
(* and, recorded for the properties only:                                  *)
(*   disk0     disk as it was when the call started                        *)
(*   log       the file system operations of the call, in order            *)
(*   openEls   the start elements that are open in the streaming pass      *)
(*   lastText  the last text token of the pass, before and after the rules *)
(***************************************************************************)
VARIABLES call, pc, err, stats, compiled, vol, disk, idx, tmpPath,
          metaChanged, navChanged, ps, disk0, log, openEls, lastText

vars == <<call, pc, err, stats, compiled, vol, disk, idx, tmpPath,
          metaChanged, navChanged, ps, disk0, log, openEls, lastText>>

\* the variables of the streaming pass
streamVars == <<ps, openEls, lastText>>

\* the variables only RewriteEPUB assigns
rwVars == <<stats, compiled, idx>>

\* the variables only EditEPUB assigns
edVars == <<metaChanged, navChanged>>

NoText == [seen |-> FALSE, orig |-> <<>>, text |-> <<>>, open |-> <<>>]

\* an archive that is no EPUB container
NotAnEpub == OtherFile("garbage")

\* an EPUB container that holds tree
Epub(tree) == [kind |-> "epub", tree |-> tree, entries |-> zipEntries(tree)]

\* the file system a call starts from
StartDisk(inputFile, outputFile, navSrc) ==
  [p \in Paths |->
     CASE p = InputPath -> inputFile
       [] p = OutputPath -> outputFile
       [] p = NavSrcPath -> navSrc
       [] OTHER -> Absent]

InitCommon ==
  /\ err = NoErr
  /\ stats = RewriteStats(0, 0)
  /\ compiled = <<>>
  /\ vol = Nil
  /\ idx = 1
  /\ tmpPath = ""
  /\ metaChanged = FALSE
  /\ navChanged = FALSE
  /\ ps = passInit(<<>>)
  /\ disk0 = disk
  /\ log = <<>>
  /\ openEls = <<>>
  /\ lastText = NoText

InitRewrite ==
  /\ \E input \in {"", InputPath}, opts \in RewriteOptions :
       call = [op |-> "rewrite", input |-> input, opts |-> opts]
  /\ \E inputFile \in {Epub(b) : b \in Books} \cup {NotAnEpub},
        outputFile \in {Absent, Epub(BookB)} :
       /\ call.opts.OutPath = "" => outputFile = Absent
       /\ disk = StartDisk(inputFile, outputFile, Absent)
  /\ pc = "rw:args"
  /\ InitCommon

\* the deferred calls of a returning EditEPUB or RewriteEPUB: os.Remove(tmpPath)
\* when tmpPath is set, then os.RemoveAll(vol.TempDir) when the volume was loaded
deferred(d, tp, loaded) ==
  LET d1 == IF tp # "" THEN [d EXCEPT ![tp] = Absent] ELSE d
  IN  IF loaded THEN [d1 EXCEPT ![WorkDir] = Absent] ELSE d1

deferredLog(tp, loaded) ==
  (IF tp # "" THEN <<"remove temp">> ELSE <<>>) \o (IF loaded THEN <<"remove tree">> ELSE <<>>)

\* a return statement without the deferred os.Remove(tmpPath)
ReturnLeavingTemp(e, d, lg, tp) ==
  /\ pc' = "done"
  /\ err' = e
  /\ tmpPath' = tp
  /\ disk' = deferred(d, "", vol # Nil)
  /\ log' = lg \o deferredLog("", vol # Nil)

\* a return statement: the error, and the deferred calls on file system d
Return(e, d, lg, tp) ==
  /\ pc' = "done"
  /\ err' = e
  /\ tmpPath' = tp
  /\ disk' = deferred(d, tp, vol # Nil)
  /\ log' = lg \o deferredLog(tp, vol # Nil)

\* the path the result goes to
outPathOf(c) == IF c.opts.OutPath = "" THEN c.input ELSE c.opts.OutPath

(***************************************************************************)
(* RewriteEPUB.                                                            *)
(***************************************************************************)
\* lines 300-305 without the check of the rule list at lines 303-305
RwCheckArgsWithoutRuleCount ==
  /\ pc = "rw:args"
  /\ IF call.input = "" THEN Return(Err("input EPUB path is required"), disk, log, tmpPath)
     ELSE pc' = "rw:compile" /\ UNCHANGED <<err, tmpPath, disk, log>>
  /\ UNCHANGED <<call, stats, compiled, vol, idx, disk0, edVars, streamVars>>

\* lines 300-305
RwCheckArgs ==
  /\ pc = "rw:args"
  /\ IF call.input = "" THEN Return(Err("input EPUB path is required"), disk, log, tmpPath)
     ELSE IF Len(call.opts.Rules) = 0
     THEN Return(Err("no rewrite rules provided"), disk, log, tmpPath)
     ELSE pc' = "rw:compile" /\ UNCHANGED <<err, tmpPath, disk, log>>
  /\ UNCHANGED <<call, stats, compiled, vol, idx, disk0, edVars, streamVars>>

\* lines 307-310
RwCompile ==
  /\ pc = "rw:compile"
  /\ \E c \in {compileRules(call.opts.Rules)} :
         IF c.err # NoErr
         THEN Return(c.err, disk, log, tmpPath) /\ UNCHANGED compiled
         ELSE /\ compiled' = c.out
              /\ pc' = "rw:load"
              /\ UNCHANGED <<err, tmpPath, disk, log>>
  /\ UNCHANGED <<call, stats, vol, idx, disk0, edVars, streamVars>>

\* lines 312-318
RwLoad ==
  /\ pc = "rw:load"
  /\ \E l \in {loadVolume(disk, call.input)} :
         IF l.err # NoErr
         THEN Return(l.err, disk, Append(log, "open"), tmpPath) /\ UNCHANGED vol
         ELSE /\ vol' = l.vol
              /\ disk' = l.disk
              /\ log' = log \o <<"open", "extract">>
              /\ pc' = "rw:meta"
              /\ UNCHANGED <<err, tmpPath>>
  /\ UNCHANGED <<call, stats, compiled, idx, disk0, edVars, streamVars>>

\* lines 321-328
RwMeta ==
  /\ pc = "rw:meta"
  /\ IF call.opts.Scope = RewriteScopeMeta \/ call.opts.Scope = RewriteScopeAll
     THEN \E r \in {rewriteMetadata(Deref(vol).PackageDoc.Metadata,
                                     metadataApplicableRules(compiled), ~call.opts.DryRun)} :
              /\ vol' = Ptr([Deref(vol) EXCEPT !.PackageDoc.Metadata = r.meta])
              /\ stats' = RewriteStats(stats.FilesChanged + (IF r.changed THEN 1 ELSE 0),
                                       stats.MatchCount + r.matches)
     ELSE UNCHANGED <<vol, stats>>
  /\ pc' = "rw:body"
  /\ UNCHANGED <<call, err, compiled, disk, idx, tmpPath, disk0, log, edVars, streamVars>>

\* is the body loop of lines 331-351 at an item?
inBodyLoop ==
  /\ call.opts.Scope = RewriteScopeBody \/ call.opts.Scope = RewriteScopeAll
  /\ idx <= Len(Deref(vol).PackageDoc.Manifest)

\* lines 332-350: one manifest item of the body loop; os.ReadFile and
\* os.WriteFile may fail
RwBodyItem ==
  /\ pc = "rw:body"
  /\ inBodyLoop
  /\ LET item == Deref(vol).PackageDoc.Manifest[idx]
         file == disk[WorkDir].files[item.Href]
     IN  IF item.MediaType # XHTML
         THEN /\ idx' = idx + 1
              /\ UNCHANGED <<pc, err, stats, disk, tmpPath, log>>
         ELSE \E readOk \in BOOLEAN, writeOk \in BOOLEAN :
              \E r \in {IF readOk /\ file.kind = "xhtml"
                        THEN rewriteXHTMLFile(file.toks, compiled)
                        ELSE [matches |-> 0, changed |-> FALSE, rewritten |-> Nil,
                              err |-> Err("read file")]} :
                LET counted == RewriteStats(stats.FilesChanged + (IF r.changed THEN 1 ELSE 0),
                                            stats.MatchCount + r.matches)
                IN  IF r.err # NoErr
                    THEN /\ writeOk
                         /\ Return(r.err, disk, log, tmpPath)
                         /\ UNCHANGED <<stats, idx>>
                    ELSE IF r.changed /\ ~call.opts.DryRun
                    THEN IF writeOk
                         THEN /\ disk' = [disk EXCEPT ![WorkDir].files[item.Href] =
                                                 XhtmlFile(redecode(Deref(r.rewritten)))]
                              /\ log' = Append(log, "write content")
                              /\ stats' = counted
                              /\ idx' = idx + 1
                              /\ UNCHANGED <<pc, err, tmpPath>>
                         ELSE /\ Return(Err("write file"), disk, log, tmpPath)
                              /\ stats' = counted
                              /\ UNCHANGED idx
                    ELSE /\ writeOk
                         /\ stats' = counted
                         /\ idx' = idx + 1
                         /\ UNCHANGED <<pc, err, disk, tmpPath, log>>
  /\ UNCHANGED <<call, compiled, vol, disk0, edVars, streamVars>>

\* lines 353-359 without the dry-run return of lines 353-355
RwDecideWithoutDryRun ==
  /\ pc = "rw:body"
  /\ ~inBodyLoop
  /\ IF stats.FilesChanged = 0 THEN Return(NoErr, disk, log, tmpPath)
     ELSE pc' = "rw:writePackage" /\ UNCHANGED <<err, tmpPath, disk, log>>
  /\ UNCHANGED <<call, stats, compiled, vol, idx, disk0, edVars, streamVars>>

\* lines 353-359 without the return of lines 357-359
RwDecideWithoutZeroCheck ==
  /\ pc = "rw:body"
  /\ ~inBodyLoop
  /\ IF call.opts.DryRun THEN Return(NoErr, disk, log, tmpPath)
     ELSE pc' = "rw:writePackage" /\ UNCHANGED <<err, tmpPath, disk, log>>
  /\ UNCHANGED <<call, stats, compiled, vol, idx, disk0, edVars, streamVars>>

\* lines 353-359
RwDecide ==
  /\ pc = "rw:body"
  /\ ~inBodyLoop
  /\ IF call.opts.DryRun THEN Return(NoErr, disk, log, tmpPath)
     ELSE IF stats.FilesChanged = 0 THEN Return(NoErr, disk, log, tmpPath)
     ELSE pc' = "rw:writePackage" /\ UNCHANGED <<err, tmpPath, disk, log>>
  /\ UNCHANGED <<call, stats, compiled, vol, idx, disk0, edVars, streamVars>>

\* lines 361-363
RwWritePackage ==
  /\ pc = "rw:writePackage"
  /\ \E ok \in BOOLEAN :
       IF ok
       THEN /\ disk' = writePackage(disk, Deref(vol).PackageDoc)
            /\ log' = Append(log, "write package")
            /\ pc' = "rw:createTemp"
            /\ UNCHANGED <<err, tmpPath>>
       ELSE Return(Err("write package"), disk, log, tmpPath)
  /\ UNCHANGED <<call, stats, compiled, vol, idx, disk0, edVars, streamVars>>

\* lines 365-380
RwCreateTemp ==
  /\ pc = "rw:createTemp"
  /\ \E ok \in BOOLEAN :
       IF ok
       THEN /\ disk' = [disk EXCEPT ![TempPath] = OtherFile("")]
            /\ log' = Append(log, "create temp")
            /\ tmpPath' = TempPath
            /\ pc' = "rw:writeZip"
            /\ UNCHANGED err
       ELSE Return(Err("create temp"), disk, log, tmpPath)
  /\ UNCHANGED <<call, stats, compiled, vol, idx, disk0, edVars, streamVars>>

\* lines 382-384
RwWriteZip ==
  /\ pc = "rw:writeZip"
  /\ \E ok \in BOOLEAN :
       IF ok
       THEN /\ disk' = writeZip(disk, tmpPath)
            /\ log' = Append(log, "pack")
            /\ pc' = "rw:rename"
            /\ UNCHANGED <<err, tmpPath>>
       ELSE Return(Err("write zip"), [disk EXCEPT ![tmpPath] = PartialArchive],
                   Append(log, "pack"), tmpPath)
  /\ UNCHANGED <<call, stats, compiled, vol, idx, disk0, edVars, streamVars>>

\* lines 385-390
RwRename ==
  /\ pc = "rw:rename"
  /\ \E ok \in BOOLEAN :
       IF ok
       THEN Return(NoErr, rename(disk, tmpPath, outPathOf(call)), Append(log, "rename"), "")
       ELSE Return(Err("rename"), disk, log, tmpPath)
  /\ UNCHANGED <<call, stats, compiled, vol, idx, disk0, edVars, streamVars>>

RewriteEPUB ==
  \/ RwCheckArgs
  \/ RwCompile
  \/ RwLoad
  \/ RwMeta
  \/ RwBodyItem
  \/ RwDecide
  \/ RwWritePackage
  \/ RwCreateTemp
  \/ RwWriteZip
  \/ RwRename

(***************************************************************************)
(* EditEPUB.                                                               *)
(***************************************************************************)
\* type MetadataPatch: every field is nil or points to its value
MetadataPatch(title, language, identifier, description, creators) ==
  [Title |-> title, Language |-> language, Identifier |-> identifier,
   Description |-> description, Creators |-> creators]

\* MetadataPatch.IsZero
IsZero(p) ==
  /\ p.Title = Nil
  /\ p.Language = Nil
  /\ p.Identifier = Nil
  /\ p.Description = Nil
  /\ p.Creators = Nil

\* firstDCValue
firstDCValue(nodes) == IF Len(nodes) = 0 THEN <<>> ELSE nodes[1].Value

\* collectCreators
collectCreators(nodes) ==
  LET kept == SelectSeq(nodes, LAMBDA n : TrimSpace(n.Value) # <<>>)
  IN  [i \in 1..Len(kept) |-> kept[i].Value]

\* writeMetadataSnapshot, lines 129-135: type MetadataSnapshot
MetadataSnapshot(meta) ==
  [kind |-> "json",
   Title |-> firstDCValue(meta.Titles),
   Language |-> firstDCValue(meta.Languages),
   Identifier |-> firstDCValue(meta.Identifiers),
   Description |-> firstDCValue(meta.Descriptions),
   Creators |-> collectCreators(meta.Creators)]

\* a DCMeta{Value: v} composite literal
DCValue(v) == [ID |-> "", Role |-> "", FileAs |-> "", Value |-> v]

\* applyMetadataPatch, lines 195-198
patchTitle(meta, patch) ==
  IF patch.Title # Nil THEN [meta EXCEPT !.Titles = <<DCValue(Deref(patch.Title))>>] ELSE meta

\* applyMetadataPatch, lines 199-202, taking an empty value for an absent one
patchLanguageSkippingEmpty(meta, patch) ==
  IF patch.Language # Nil /\ Deref(patch.Language) # <<>>
  THEN [meta EXCEPT !.Languages = <<DCValue(Deref(patch.Language))>>]
  ELSE meta

\* applyMetadataPatch, lines 199-202
patchLanguage(meta, patch) ==
  IF patch.Language # Nil THEN [meta EXCEPT !.Languages = <<DCValue(Deref(patch.Language))>>]
  ELSE meta

\* applyMetadataPatch, lines 203-210, replacing the identifier list like the
\* other fields do
patchIdentifierReplacingList(meta, patch) ==
  IF patch.Identifier # Nil
  THEN [meta EXCEPT !.Identifiers = <<DCValue(Deref(patch.Identifier))>>]
  ELSE meta

\* applyMetadataPatch, lines 203-210
patchIdentifier(meta, patch) ==
  IF patch.Identifier # Nil
  THEN IF Len(meta.Identifiers) = 0
       THEN [meta EXCEPT !.Identifiers = <<DCValue(Deref(patch.Identifier))>>]
       ELSE [meta EXCEPT !.Identifiers[1].Value = Deref(patch.Identifier)]
  ELSE meta

\* applyMetadataPatch, lines 211-214
patchDescription(meta, patch) ==
  IF patch.Description # Nil
  THEN [meta EXCEPT !.Descriptions = <<DCValue(Deref(patch.Description))>>]
  ELSE meta

\* applyMetadataPatch, lines 215-221
patchCreators(meta, patch) ==
  IF patch.Creators # Nil
  THEN [meta EXCEPT !.Creators =
          [i \in 1..Len(Deref(patch.Creators)) |-> DCValue(Deref(patch.Creators)[i])]]
  ELSE meta

\* applyMetadataPatch: [meta, changed]
applyMetadataPatch(meta, patch) ==
  [meta |-> patchCreators(patchDescription(patchIdentifier(patchLanguage(
              patchTitle(meta, patch), patch), patch), patch), patch),
   changed |-> \/ patch.Title # Nil
               \/ patch.Language # Nil
               \/ patch.Identifier # Nil
               \/ patch.Description # Nil
               \/ patch.Creators # Nil]

ModifiedProperty == "dcterms:modified"

\* updateModifiedTimestamp without the loop of lines 227-232
updateModifiedTimestampAppending(meta, stamp) ==
  [meta EXCEPT !.Meta = Append(@, MetaNode(ModifiedProperty, stamp))]

\* updateModifiedTimestamp, with stamp the formatted current time
updateModifiedTimestamp(meta, stamp) ==
  IF \E i \in 1..Len(meta.Meta) : meta.Meta[i].Property = ModifiedProperty
  THEN LET i == CHOOSE k \in 1..Len(meta.Meta) :
                  /\ meta.Meta[k].Property = ModifiedProperty
                  /\ \A m \in 1..(k - 1) : meta.Meta[m].Property # ModifiedProperty
       IN  [meta EXCEPT !.Meta[i].Value = stamp]
  ELSE [meta EXCEPT !.Meta = Append(@, MetaNode(ModifiedProperty, stamp))]

\* the values time.Now().UTC().Format(time.RFC3339) takes
Stamps == {"2026-11-01T00:00:00Z"}

\* copyFile(src, dest): dest holds what src holds
copyFile(d, srcContent, dest) == [d EXCEPT ![dest] = srcContent]

\* the navigation document in the working tree
navFile(d, v) == d[WorkDir].files[v.NavHref]

\* the patches of the model: every field absent, or present with one value
\* (language: present and empty); the creator list absent, empty or of two names
Patches ==
  {MetadataPatch(t, l, i, d, c) :
     t \in {Nil, Ptr(<<"n", "t">>)}, l \in {Nil, Ptr(<<>>)}, i \in {Nil, Ptr(<<"u">>)},
     d \in {Nil, Ptr(<<"d">>)}, c \in {Nil, Ptr(<<>>), Ptr(<< <<"A">>, <<"B">> >>)}}

\* type EditOptions
EditOptions ==
  [OutPath : {"", OutputPath}, NavReplacePath : {"", NavSrcPath},
   DumpNavPath : {"", DumpNavPath, InputPath}, DumpMetaPath : {"", DumpMetaPath, OutputPath},
   MetadataPatch : Patches, TouchModified : BOOLEAN]

\* the file a navigation replacement is read from
NewNav == XhtmlFile(<<StartTok(El(<<"n", "a", "v">>, <<>>)), TextTok(<<"n">>), EndTok>>)

InitEdit ==
  /\ \E input \in {"", InputPath}, opts \in EditOptions :
       call = [op |-> "edit", input |-> input, opts |-> opts]
  /\ \E inputFile \in {Epub(b) : b \in Books} \cup {NotAnEpub},
        outputFile \in {Absent, Epub(BookB)}, navSrc \in {Absent, NewNav} :
       /\ call.opts.OutPath = "" => outputFile = Absent
       /\ call.opts.NavReplacePath = "" => navSrc = Absent
       /\ disk = StartDisk(inputFile, outputFile, navSrc)
  /\ pc = "ed:args"
  /\ InitCommon

\* lines 47-49
EdCheckArgs ==
  /\ pc = "ed:args"
  /\ IF call.input = "" THEN Return(Err("input EPUB path is required"), disk, log, tmpPath)
     ELSE pc' = "ed:load" /\ UNCHANGED <<err, tmpPath, disk, log>>
  /\ UNCHANGED <<call, vol, disk0, rwVars, edVars, streamVars>>

\* lines 51-57
EdLoad ==
  /\ pc = "ed:load"
  /\ \E l \in {loadVolume(disk, call.input)} :
         IF l.err # NoErr
         THEN Return(l.err, disk, Append(log, "open"), tmpPath) /\ UNCHANGED vol
         ELSE /\ vol' = l.vol
              /\ disk' = l.disk
              /\ log' = log \o <<"open", "extract">>
              /\ pc' = "ed:dumpMeta"
              /\ UNCHANGED <<err, tmpPath>>
  /\ UNCHANGED <<call, disk0, rwVars, edVars, streamVars>>

\* lines 59-63; writing the snapshot may fail
EdDumpMeta ==
  /\ pc = "ed:dumpMeta"
  /\ IF call.opts.DumpMetaPath # ""
     THEN \E ok \in BOOLEAN :
            IF ok
            THEN /\ disk' = [disk EXCEPT ![call.opts.DumpMetaPath] =
                                           MetadataSnapshot(Deref(vol).PackageDoc.Metadata)]
                 /\ log' = Append(log, "dump meta")
                 /\ pc' = "ed:dumpNav"
                 /\ UNCHANGED <<err, tmpPath>>
            ELSE Return(Err("write snapshot"), disk, log, tmpPath)
     ELSE pc' = "ed:dumpNav" /\ UNCHANGED <<err, tmpPath, disk, log>>
  /\ UNCHANGED <<call, vol, disk0, rwVars, edVars, streamVars>>

\* lines 65-69, with dumpNavFile; the copy may fail
EdDumpNav ==
  /\ pc = "ed:dumpNav"
  /\ IF call.opts.DumpNavPath # ""
     THEN IF Deref(vol).NavHref = ""
          THEN Return(Err("nav document not found"), disk, log, tmpPath)
          ELSE \E ok \in BOOLEAN :
                 IF ok
                 THEN /\ disk' = copyFile(disk, navFile(disk, Deref(vol)), call.opts.DumpNavPath)
                      /\ log' = Append(log, "dump nav")
                      /\ pc' = "ed:patch"
                      /\ UNCHANGED <<err, tmpPath>>
                 ELSE Return(Err("copy file"), disk, log, tmpPath)
     ELSE pc' = "ed:patch" /\ UNCHANGED <<err, tmpPath, disk, log>>
  /\ UNCHANGED <<call, vol, disk0, rwVars, edVars, streamVars>>

\* lines 71-74
EdPatch ==
  /\ pc = "ed:patch"
  /\ IF ~IsZero(call.opts.MetadataPatch)
     THEN \E r \in {applyMetadataPatch(Deref(vol).PackageDoc.Metadata, call.opts.MetadataPatch)} :
            /\ vol' = Ptr([Deref(vol) EXCEPT !.PackageDoc.Metadata = r.meta])
            /\ metaChanged' = r.changed
     ELSE UNCHANGED <<vol, metaChanged>>
  /\ pc' = "ed:nav"
  /\ UNCHANGED <<call, err, disk, tmpPath, disk0, log, navChanged, rwVars, streamVars>>

\* lines 76-85, with replaceNavFile; os.Stat fails on a missing file and the
\* copy may fail
EdNav ==
  /\ pc = "ed:nav"
  /\ IF call.opts.NavReplacePath # ""
     THEN IF Deref(vol).NavHref = ""
          THEN Return(Err("nav document not found"), disk, log, tmpPath)
               /\ UNCHANGED navChanged
          ELSE IF disk[call.opts.NavReplacePath].kind = "absent"
          THEN Return(Err("stat"), disk, log, tmpPath) /\ UNCHANGED navChanged
          ELSE \E ok \in BOOLEAN :
                 IF ok
                 THEN /\ disk' = [disk EXCEPT ![WorkDir].files[Deref(vol).NavHref] =
                                                 disk[call.opts.NavReplacePath]]
                      /\ log' = Append(log, "replace nav")
                      /\ navChanged' = TRUE
                      /\ pc' = "ed:decide"
                      /\ UNCHANGED <<err, tmpPath>>
                 ELSE Return(Err("copy file"), disk, log, tmpPath) /\ UNCHANGED navChanged
     ELSE pc' = "ed:decide" /\ UNCHANGED <<err, tmpPath, disk, log, navChanged>>
  /\ UNCHANGED <<call, vol, disk0, metaChanged, rwVars, streamVars>>

\* lines 87-94 without the return of lines 88-90
EdDecideAlwaysWrites ==
  /\ pc = "ed:decide"
  /\ IF call.opts.TouchModified
     THEN \E stamp \in Stamps :
            vol' = Ptr([Deref(vol) EXCEPT !.PackageDoc.Metadata =
                                             updateModifiedTimestamp(@, stamp)])
     ELSE UNCHANGED vol
  /\ pc' = "ed:writePackage"
  /\ UNCHANGED <<err, tmpPath, disk, log>>
  /\ UNCHANGED <<call, disk0, rwVars, edVars, streamVars>>

\* lines 87-94
EdDecide ==
  /\ pc = "ed:decide"
  /\ LET needsWrite == metaChanged \/ navChanged
     IN  IF ~needsWrite
         THEN Return(NoErr, disk, log, tmpPath) /\ UNCHANGED vol
         ELSE /\ IF call.opts.TouchModified
                 THEN \E stamp \in Stamps :
                        vol' = Ptr([Deref(vol) EXCEPT !.PackageDoc.Metadata =
                                                         updateModifiedTimestamp(@, stamp)])
                 ELSE UNCHANGED vol
              /\ pc' = "ed:writePackage"
              /\ UNCHANGED <<err, tmpPath, disk, log>>
  /\ UNCHANGED <<call, disk0, rwVars, edVars, streamVars>>

\* lines 96-98
EdWritePackage ==
  /\ pc = "ed:writePackage"
  /\ \E ok \in BOOLEAN :
       IF ok
       THEN /\ disk' = writePackage(disk, Deref(vol).PackageDoc)
            /\ log' = Append(log, "write package")
            /\ pc' = "ed:createTemp"
            /\ UNCHANGED <<err, tmpPath>>
       ELSE Return(Err("write package"), disk, log, tmpPath)
  /\ UNCHANGED <<call, vol, disk0, rwVars, edVars, streamVars>>

\* lines 100-115
EdCreateTemp ==
  /\ pc = "ed:createTemp"
  /\ \E ok \in BOOLEAN :
       IF ok
       THEN /\ disk' = [disk EXCEPT ![TempPath] = OtherFile("")]
            /\ log' = Append(log, "create temp")
            /\ tmpPath' = TempPath
            /\ pc' = "ed:writeZip"
            /\ UNCHANGED err
       ELSE Return(Err("create temp"), disk, log, tmpPath)
  /\ UNCHANGED <<call, vol, disk0, rwVars, edVars, streamVars>>

\* lines 117-119 without the call of writeZip
EdWriteZipSkipped ==
  /\ pc = "ed:writeZip"
  /\ pc' = "ed:rename"
  /\ UNCHANGED <<call, err, tmpPath, disk, log, vol, disk0, rwVars, edVars, streamVars>>

\* lines 117-119
EdWriteZip ==
  /\ pc = "ed:writeZip"
  /\ \E ok \in BOOLEAN :
       IF ok
       THEN /\ disk' = writeZip(disk, tmpPath)
            /\ log' = Append(log, "pack")
            /\ pc' = "ed:rename"
            /\ UNCHANGED <<err, tmpPath>>
       ELSE Return(Err("write zip"), [disk EXCEPT ![tmpPath] = PartialArchive],
                   Append(log, "pack"), tmpPath)
  /\ UNCHANGED <<call, vol, disk0, rwVars, edVars, streamVars>>

\* lines 120-125
EdRename ==
  /\ pc = "ed:rename"
  /\ \E ok \in BOOLEAN :
       IF ok
       THEN Return(NoErr, rename(disk, tmpPath, outPathOf(call)), Append(log, "rename"), "")
       ELSE Return(Err("rename"), disk, log, tmpPath)
  /\ UNCHANGED <<call, vol, disk0, rwVars, edVars, streamVars>>

EditEPUB ==
  \/ EdCheckArgs
  \/ EdLoad
  \/ EdDumpMeta
  \/ EdDumpNav
  \/ EdPatch
  \/ EdNav
  \/ EdDecide
  \/ EdWritePackage
  \/ EdCreateTemp
  \/ EdWriteZip
  \/ EdRename

(***************************************************************************)
(* MergeEPUBs.  Here call holds the containers found at the volume paths   *)
(* and the options, idx is the sequence number of the next volume, vol the  *)
(* combined package document, and the working tree is the output tree.  The *)
(* manifest ids of the volumes are character sequences.                     *)
(***************************************************************************)
\* one decimal digit
DigitChar(d) ==
  CASE d = 0 -> "0" [] d = 1 -> "1" [] d = 2 -> "2" [] d = 3 -> "3" [] d = 4 -> "4"
    [] d = 5 -> "5" [] d = 6 -> "6" [] d = 7 -> "7" [] d = 8 -> "8" [] OTHER -> "9"

\* the decimal digits of a number
RECURSIVE Itoa(_)
Itoa(n) == IF n < 10 THEN <<DigitChar(n)>> ELSE Itoa(n \div 10) \o <<DigitChar(n % 10)>>

\* a number padded with zeros to four digits
RECURSIVE PadLeft(_, _)
PadLeft(ds, width) == IF Len(ds) >= width THEN ds ELSE PadLeft(<<"0">> \o ds, width)

\* the directory of a volume in the output tree: OEBPS/Volumes/v{0-padded sequence}
volumePrefix(seq) == <<"OEBPS", "Volumes", <<"v">> \o PadLeft(Itoa(seq), 4)>>

\* the id of an item without the sequence number of its volume
newIDWithoutSequence(seq, id) == <<"v", "-">> \o id

\* the id of an item of the merged manifest: the sequence number of the volume
\* and the original id, as in v1-chap01
newID(seq, id) == <<"v">> \o Itoa(seq) \o <<"-">> \o id

\* the href of an item under the directory of its volume
newHref(seq, href) == Append(volumePrefix(seq), href)

\* the id mapping of a volume: old id -> new id
idMapping(seq, pkg) ==
  [id \in {pkg.Manifest[i].ID : i \in 1..Len(pkg.Manifest)} |-> newID(seq, id)]

\* the rewritten manifest items of a volume, in their original order
rewriteManifest(seq, pkg) ==
  [i \in 1..Len(pkg.Manifest) |->
     [pkg.Manifest[i] EXCEPT !.ID = idMapping(seq, pkg)[@], !.Href = newHref(seq, @)]]

\* the spine of a volume without the rewriting of its idrefs
rewriteSpineKeepingIDs(seq, pkg) == pkg.Spine

\* the rewritten spine entries of a volume, in their original order
rewriteSpine(seq, pkg) == [i \in 1..Len(pkg.Spine) |-> idMapping(seq, pkg)[pkg.Spine[i]]]

\* the files of a volume at their new places
copyAssets(seq, tree) ==
  [h \in {newHref(seq, o) : o \in DOMAIN tree.files} |->
     tree.files[CHOOSE o \in DOMAIN tree.files : newHref(seq, o) = h]]

\* the id and the path of the generated navigation document
MergedNavID == <<"n", "a", "v">>

MergedNavHref == <<"OEBPS", "nav.xhtml">>

\* the entry point of a volume: the new href of the item its first spine
\* entry names, "" for an empty spine
entryPoint(seq, pkg) ==
  IF pkg.Spine = <<>> THEN <<>>
  ELSE newHref(seq, pkg.Manifest[CHOOSE i \in 1..Len(pkg.Manifest) :
                                   pkg.Manifest[i].ID = pkg.Spine[1]].Href)

\* the label of a volume in the navigation document
volumeLabel(seq, pkg) ==
  IF pkg.Metadata.Titles # <<>> /\ pkg.Metadata.Titles[1].Value # <<>>
  THEN pkg.Metadata.Titles[1].Value
  ELSE <<"V", "o", "l", "u", "m", "e", " ">> \o Itoa(seq)

\* the entry of a volume in the navigation document
navEntry(seq, pkg) == [label |-> volumeLabel(seq, pkg), href |-> entryPoint(seq, pkg)]

\* the list entries of the navigation document
RECURSIVE navItems(_)
navItems(entries) ==
  IF entries = <<>> THEN <<>>
  ELSE <<StartTok(El(<<"a">>, <<[Space |-> "", Local |-> "href", Value |-> Head(entries).href]>>)),
         TextTok(Head(entries).label), EndTok>> \o navItems(Tail(entries))

\* the synthesized navigation document: one entry per volume, in input order
navDocument(entries) ==
  XhtmlFile(<<StartTok(El(<<"n", "a", "v">>, <<>>))>> \o navItems(entries) \o <<EndTok>>)

\* type MergeOptions
MergeOptions ==
  [Title : {<<>>, <<"T">>}, Language : {<<>>}, Creators : {<<>>, <<<<"X">>>>},
   OutPath : {OutputPath}]

\* the combined metadata: title and language of the options or of the first
\* volume, the creators of the options or of the first volume, no identifier
\* and no description
mergedMetadata(first, opts) ==
  [Titles |-> IF opts.Title # <<>> THEN <<DCMeta("", opts.Title)>>
              ELSE IF first.Titles = <<>> THEN <<>> ELSE <<DCMeta("", first.Titles[1].Value)>>,
   Languages |-> IF opts.Language # <<>> THEN <<DCMeta("", opts.Language)>>
                 ELSE IF first.Languages = <<>> THEN <<>>
                 ELSE <<DCMeta("", first.Languages[1].Value)>>,
   Creators |-> IF opts.Creators # <<>>
                THEN [i \in 1..Len(opts.Creators) |-> DCMeta("", opts.Creators[i])]
                ELSE first.Creators,
   Identifiers |-> <<>>,
   Descriptions |-> <<>>,
   Meta |-> <<>>]

\* a volume with manifest and spine only
Volume(titles, manifest, spine, files) ==
  Tree([Metadata |-> [Titles |-> titles, Creators |-> <<>>, Languages |-> <<>>,
                      Identifiers |-> <<>>, Descriptions |-> <<>>, Meta |-> <<>>],
        Manifest |-> manifest,
        Spine |-> spine],
       files)

\* a volume whose spine is not in manifest order and names one item twice
VolA ==
  Volume(<<DCMeta("", <<"A">>)>>,
         <<ManifestItem(<<"c", "1">>, "c1.xhtml", XHTML, ""),
           ManifestItem(<<"c", "2">>, "c2.xhtml", XHTML, ""),
           ManifestItem(<<"n", "a", "v">>, "nav.xhtml", XHTML, "nav")>>,
         << <<"c", "2">>, <<"c", "1">>, <<"c", "2">> >>,
         [h \in {"c1.xhtml", "c2.xhtml", "nav.xhtml"} |-> XhtmlFile(<<TextTok(<<"a">>)>>)])

\* a volume that uses an id of VolA and an id that looks like a merged one
VolB ==
  Volume(<<>>,
         <<ManifestItem(<<"c", "1">>, "c1.xhtml", XHTML, ""),
           ManifestItem(<<"v", "2", "-", "c", "1">>, "x.png", "image/png", "")>>,
         << <<"c", "1">> >>,
         [h \in {"c1.xhtml", "x.png"} |-> IF h = "x.png" THEN OtherFile("png")
                                           ELSE XhtmlFile(<<TextTok(<<"b">>)>>)])

MergeVolumes == {Epub(VolA), Epub(VolB), NotAnEpub}

MaxVolumes == 3

\* the sequences of n containers
RECURSIVE VolumeListsOfLen(_)
VolumeListsOfLen(n) ==
  IF n = 0 THEN {<<>>}
  ELSE {Append(l, v) : l \in VolumeListsOfLen(n - 1), v \in MergeVolumes}

InitMerge ==
  /\ \E n \in 0..MaxVolumes :
       \E volumes \in VolumeListsOfLen(n), opts \in MergeOptions :
         call = [op |-> "merge", volumes |-> volumes, opts |-> opts]
  /\ disk = StartDisk(Absent, Absent, Absent)
  /\ pc = "mg:args"
  /\ InitCommon

\* the precondition: at least two volumes
MgCheckArgs ==
  /\ pc = "mg:args"
  /\ IF Len(call.volumes) < 2
     THEN Return(Err("need at least two volumes"), disk, log, tmpPath)
     ELSE /\ pc' = "mg:volume"
          /\ disk' = [disk EXCEPT ![WorkDir] = Tree(<<>>, <<>>)]
          /\ UNCHANGED <<err, tmpPath, log>>
  /\ UNCHANGED <<call, vol, idx, stats, compiled, disk0, edVars, streamVars>>

\* the combined package document before the first volume
emptyMerge ==
  [PackageDoc |-> [Metadata |-> mergedMetadata([Titles |-> <<>>, Languages |-> <<>>,
                                                Creators |-> <<>>], [Title |-> <<>>,
                                                Language |-> <<>>, Creators |-> <<>>]),
                   Manifest |-> <<>>, Spine |-> <<>>],
   NavHref |-> "", entries |-> <<>>, first |-> Nil]

\* steps 1 to 7 on the volume with sequence number idx
MgVolume ==
  /\ pc = "mg:volume"
  /\ idx <= Len(call.volumes)
  /\ IF call.volumes[idx].kind # "epub"
     THEN /\ Return(Err("open epub"), [disk EXCEPT ![WorkDir] = Absent],
                    Append(log, "open"), tmpPath)
          /\ UNCHANGED <<vol, idx>>
     ELSE \E m \in {IF vol = Nil THEN emptyMerge ELSE Deref(vol)},
             pkg \in {call.volumes[idx].tree.opf} :
            /\ vol' = Ptr([m EXCEPT
                 !.PackageDoc.Manifest = @ \o rewriteManifest(idx, pkg),
                 !.PackageDoc.Spine = @ \o rewriteSpine(idx, pkg),
                 !.entries = Append(@, navEntry(idx, pkg)),
                 !.first = IF @ = Nil THEN Ptr(pkg.Metadata) ELSE @])
            /\ disk' = [disk EXCEPT ![WorkDir] =
                 Tree(<<>>, copyAssets(idx, call.volumes[idx].tree) @@ disk[WorkDir].files)]
            /\ log' = log \o <<"open", "copy assets">>
            /\ idx' = idx + 1
            /\ UNCHANGED <<pc, err, tmpPath>>
  /\ UNCHANGED <<call, stats, compiled, disk0, edVars, streamVars>>

\* after the last volume: the combined metadata, the navigation document and
\* its manifest item, and the package document written into the output tree
MgFinish ==
  /\ pc = "mg:volume"
  /\ idx > Len(call.volumes)
  /\ \E m \in {Deref(vol)} :
       \E pkg \in {[Metadata |-> mergedMetadata(Deref(m.first), call.opts),
                    Manifest |-> Append(m.PackageDoc.Manifest,
                                        ManifestItem(MergedNavID, MergedNavHref, XHTML, "nav")),
                    Spine |-> m.PackageDoc.Spine]} :
         /\ vol' = Ptr([m EXCEPT !.PackageDoc = pkg, !.NavHref = MergedNavHref])
         /\ disk' = [disk EXCEPT ![WorkDir] =
              Tree(pkg, (MergedNavHref :> navDocument(m.entries)) @@ disk[WorkDir].files)]
  /\ log' = log \o <<"write nav", "write package">>
  /\ pc' = "mg:createTemp"
  /\ UNCHANGED <<call, err, idx, tmpPath, stats, compiled, disk0, edVars, streamVars>>

\* the pack step writes to a temporary path first
MgCreateTemp ==
  /\ pc = "mg:createTemp"
  /\ \E ok \in BOOLEAN :
       IF ok
       THEN /\ disk' = [disk EXCEPT ![TempPath] = OtherFile("")]
            /\ log' = Append(log, "create temp")
            /\ tmpPath' = TempPath
            /\ pc' = "mg:writeZip"
            /\ UNCHANGED err
       ELSE Return(Err("create temp"), disk, log, tmpPath)
  /\ UNCHANGED <<call, vol, idx, stats, compiled, disk0, edVars, streamVars>>

MgWriteZip ==
  /\ pc = "mg:writeZip"
  /\ \E ok \in BOOLEAN :
       IF ok
       THEN /\ disk' = writeZip(disk, tmpPath)
            /\ log' = Append(log, "pack")
            /\ pc' = "mg:rename"
            /\ UNCHANGED <<err, tmpPath>>
       ELSE Return(Err("write zip"), [disk EXCEPT ![tmpPath] = PartialArchive],
                   Append(log, "pack"), tmpPath)
  /\ UNCHANGED <<call, vol, idx, stats, compiled, disk0, edVars, streamVars>>

\* then the archive is renamed over options.OutPath
MgRename ==
  /\ pc = "mg:rename"
  /\ \E ok \in BOOLEAN :
       IF ok
       THEN Return(NoErr, rename(disk, tmpPath, call.opts.OutPath), Append(log, "rename"), "")
       ELSE Return(Err("rename"), disk, log, tmpPath)
  /\ UNCHANGED <<call, vol, idx, stats, compiled, disk0, edVars, streamVars>>

MergeEPUBs ==
  \/ MgCheckArgs
  \/ MgVolume
  \/ MgFinish
  \/ MgCreateTemp
  \/ MgWriteZip
  \/ MgRename

(***************************************************************************)
(* One call of RewriteEPUB, of EditEPUB or of MergeEPUBs, from its         *)
(* arguments and the file system it finds to its return.                   *)
(***************************************************************************)
Init == InitRewrite \/ InitEdit \/ InitMerge

Next == RewriteEPUB \/ EditEPUB \/ MergeEPUBs

Spec == Init /\ [][Next]_vars

(***************************************************************************)
(* compileRules on every selector string of at most MaxSelLen characters. *)
(***************************************************************************)
SelChars == {"p", "P", "n", ".", ",", " "}

\* the character sequences over SelChars of length n
RECURSIVE SelStringsOfLen(_)
SelStringsOfLen(n) ==
  IF n = 0 THEN {<<>>}
  ELSE {Append(t, c) : t \in SelStringsOfLen(n - 1), c \in SelChars}

SelStrings == UNION {SelStringsOfLen(n) : n \in 0..MaxSelLen}

InitCompile ==
  /\ \E sel \in SelStrings, regex \in BOOLEAN :
       call = [op |-> "rewrite", input |-> InputPath,
               opts |-> [OutPath |-> "", Scope |-> RewriteScopeBody,
                         Rules |-> <<RewriteRule(<<"a">>, <<"b">>, regex, FALSE, <<sel>>)>>,
                         DryRun |-> TRUE]]
  /\ disk = StartDisk(Epub(BookB), Absent, Absent)
  /\ pc = "rw:compile"
  /\ InitCommon

NextCompile == RwCompile

SpecCompile == InitCompile /\ [][NextCompile]_vars

(***************************************************************************)
(* rewriteXHTMLFile token by token, on every document of at most MaxTokens *)
(* tokens, and then the same rules once more on the file the pass wrote.   *)
(* Here call holds the rules and the tokens read so far, idx counts them,  *)
(* and stats holds what the second run returned.                           *)
(***************************************************************************)
\* <P class="x note">
PUpper == El(<<"P">>, <<ClassAttr(<<"x", " ">> \o Note)>>)

\* <p xmlns:class="x" class="note">: a namespace declaration for the prefix
\* class comes to the pass as an attribute with local name class
PDecl == El(<<"p">>, <<[Space |-> "xmlns", Local |-> ClassName, Value |-> <<"x">>],
                       ClassAttr(Note)>>)

Inline == El(<<"i">>, <<>>)

StreamElements == {PNote, PPlain, PUpper, PDecl, Inline}

StreamTokens ==
  {StartTok(el) : el \in StreamElements}
    \cup {EndTok, OtherTok, TextTok(<<"a">>), TextTok(<<"a", "a", "B", "B">>)}

StreamRules ==
  { <<Lit(<<"a">>, <<"b">>, FALSE, <<PNoteSel>>)>>,
    <<Lit(<<"a">>, <<"b">>, FALSE, <<>>), Lit(<<"b">>, <<"a">>, FALSE, <<>>)>>,
    <<Lit(<<"a", "b">>, <<>>, TRUE, <<>>)>>,
    <<Lit(<<"a">>, <<"c">>, FALSE, <<PNoteSel>>), Lit(<<"b">>, <<"d">>, TRUE, <<>>)>>,
    <<Lit(<<"a", "a">>, <<"c">>, FALSE, <<>>), Lit(<<"B">>, <<"d">>, FALSE, <<>>)>>,
    <<RewriteRule(<<InlineFlag>>, <<"c">>, TRUE, FALSE, <<>>)>> }

InitStream ==
  /\ \E rules \in StreamRules : call = [op |-> "pass", rules |-> rules, toks |-> <<>>]
  /\ disk = StartDisk(Absent, Absent, Absent)
  /\ pc = "st:compile"
  /\ InitCommon

\* compileRules, and lines 509-520 of rewriteXHTMLFile
StCompile ==
  /\ pc = "st:compile"
  /\ \E c \in {compileRules(call.rules)} :
       /\ c.err = NoErr
       /\ compiled' = c.out
       /\ ps' = passInit(c.out)
  /\ pc' = "st:loop"
  /\ UNCHANGED <<call, err, stats, vol, disk, idx, tmpPath, disk0, log, edVars,
                 openEls, lastText>>

\* the open elements after token tok
openAfter(open, tok) ==
  CASE tok.kind = "start" -> Append(open, tok.el)
    [] tok.kind = "end" -> SubSeq(open, 1, Len(open) - 1)
    [] OTHER -> open

\* lines 523-590: dec.Token() delivers one more token and the switch handles it
StToken ==
  /\ pc = "st:loop"
  /\ idx <= MaxTokens
  /\ \E tok \in StreamTokens :
       /\ ~decodeFails(<<tok>>, Len(ps.stack))
       /\ \E next \in {onToken(ps, compiled, tok)} :
            /\ ps' = next
            /\ lastText' = IF tok.kind = "text"
                           THEN [seen |-> TRUE, orig |-> tok.data,
                                 text |-> next.out[Len(next.out)].data, open |-> openEls]
                           ELSE lastText
       /\ openEls' = openAfter(openEls, tok)
       /\ call' = [call EXCEPT !.toks = Append(@, tok)]
  /\ idx' = idx + 1
  /\ UNCHANGED <<pc, err, stats, compiled, vol, disk, tmpPath, disk0, log, edVars>>

\* lines 523-529: dec.Token() fails, on an end element that closes nothing or
\* at the end of the input inside an open element
StDecodeError ==
  /\ pc = "st:loop"
  /\ \/ decodeFails(<<EndTok>>, Len(ps.stack))
     \/ decodeFails(<<>>, Len(ps.stack))
  /\ pc' = "done"
  /\ err' = Err("xml syntax")
  /\ UNCHANGED <<call, stats, compiled, vol, disk, idx, tmpPath, disk0, log, edVars,
                 streamVars>>

\* lines 525-527 and 593-601: io.EOF ends the loop and the pass returns
StEOF ==
  /\ pc = "st:loop"
  /\ ~decodeFails(<<>>, Len(ps.stack))
  /\ pc' = "st:returned"
  /\ UNCHANGED <<call, err, stats, compiled, vol, disk, idx, tmpPath, disk0, log, edVars,
                 streamVars>>

\* the file after the pass: RewriteEPUB (lines 342-348) writes the rewritten
\* bytes over it when the pass reports a change
fileAfter(toks, r) == IF r.changed THEN redecode(Deref(r.rewritten)) ELSE toks

\* the same rules once more, on the file as the first pass left it
StSecondRun ==
  /\ pc = "st:returned"
  /\ \E r \in {rewriteXHTMLFile(fileAfter(call.toks, passResult(ps)), compiled)} :
       /\ stats' = RewriteStats(IF r.changed THEN 1 ELSE 0, r.matches)
       /\ err' = r.err
  /\ pc' = "done"
  /\ UNCHANGED <<call, compiled, vol, disk, idx, tmpPath, disk0, log, edVars, streamVars>>

NextStream ==
  \/ StCompile
  \/ StToken
  \/ StDecodeError
  \/ StEOF
  \/ StSecondRun

SpecStream == InitStream /\ [][NextStream]_vars

(***************************************************************************)
(* applyRuleToText with one literal case-insensitive rule, on every text of *)
(* at most MaxTextChars characters.  Here call holds the text and the find  *)
(* string character by character, lastText the text before and after, and   *)
(* stats the match count.                                                   *)
(***************************************************************************)
MaxTextChars == 3

MaxFindChars == 2

\* the characters of texts and find strings, each as its UTF-8 bytes
TextChars == {<<"a">>, <<"B">>, <<"K">>, KelvinSign, StrokeA}

\* the sequences of n characters
RECURSIVE CharSeqsOfLen(_)
CharSeqsOfLen(n) ==
  IF n = 0 THEN {<<>>}
  ELSE {Append(t, c) : t \in CharSeqsOfLen(n - 1), c \in TextChars}

\* the bytes of a sequence of characters
RECURSIVE Bytes(_)
Bytes(t) == IF t = <<>> THEN <<>> ELSE Head(t) \o Bytes(Tail(t))

Replacements == {<<>>, <<"x">>}

InitText ==
  /\ \E n \in 0..MaxTextChars, m \in 1..MaxFindChars :
       \E text \in CharSeqsOfLen(n), find \in CharSeqsOfLen(m), repl \in Replacements :
         call = [op |-> "text", text |-> text, find |-> find,
                 rules |-> <<Lit(Bytes(find), repl, TRUE, <<>>)>>]
  /\ disk = StartDisk(Absent, Absent, Absent)
  /\ pc = "tx:compile"
  /\ InitCommon

\* compileRules on the one rule
TxCompile ==
  /\ pc = "tx:compile"
  /\ \E c \in {compileRules(call.rules)} :
       /\ c.err = NoErr
       /\ compiled' = c.out
  /\ pc' = "tx:apply"
  /\ UNCHANGED <<call, err, stats, vol, disk, idx, tmpPath, disk0, log, edVars, streamVars>>

\* applyRuleToText on the text: it returns the new text and the match count,
\* or the goroutine panics on a slice out of range
TxApply ==
  /\ pc = "tx:apply"
  /\ IF applyRuleToTextPanics(Bytes(call.text), compiled[1])
     THEN /\ pc' = "panicked"
          /\ UNCHANGED <<stats, lastText>>
     ELSE /\ pc' = "done"
          /\ \E r \in {applyRuleToText(Bytes(call.text), compiled[1])} :
               /\ lastText' = [seen |-> TRUE, orig |-> Bytes(call.text), text |-> r.text,
                               open |-> <<>>]
               /\ stats' = RewriteStats(0, r.mc)
  /\ UNCHANGED <<call, err, compiled, vol, disk, idx, tmpPath, disk0, log, edVars, ps, openEls>>

NextText ==
  \/ TxCompile
  \/ TxApply

SpecText == InitText /\ [][NextText]_vars

(***************************************************************************)
(* expandDirectories (cmd/novfmt/main.go).  A directory entry is            *)
(* [name, isDir] with the name a character sequence; here call holds the    *)
(* directories scanned so far (each as the set of its entries) and the      *)
(* volumes collected from them, and idx counts the directories.            *)
(***************************************************************************)
\* the byte of a character of file names
ByteOf(c) ==
  CASE c = "." -> 46
    [] c = "/" -> 47
    [] c = "0" -> 48
    [] c = "1" -> 49
    [] c = "2" -> 50
    [] c = "3" -> 51
    [] c = "A" -> 65
    [] c = "B" -> 66
    [] c = "E" -> 69
    [] c = "P" -> 80
    [] c = "U" -> 85
    [] c = "V" -> 86
    [] c = "a" -> 97
    [] c = "b" -> 98
    [] c = "d" -> 100
    [] c = "e" -> 101
    [] c = "p" -> 112
    [] c = "t" -> 116
    [] c = "u" -> 117
    [] c = "v" -> 118
    [] OTHER -> 120

\* a < b on Go strings: byte by byte, a proper prefix first
RECURSIVE StringLess(_, _)
StringLess(a, b) ==
  IF b = <<>> THEN FALSE
  ELSE IF a = <<>> THEN TRUE
  ELSE IF Head(a) # Head(b) THEN ByteOf(Head(a)) < ByteOf(Head(b))
  ELSE StringLess(Tail(a), Tail(b))

\* filepath.Ext: the suffix of name that starts at its last dot, or ""
RECURSIVE Ext(_)
Ext(name) ==
  IF ~Contains(name, ".") THEN <<>>
  ELSE IF Contains(Tail(name), ".") THEN Ext(Tail(name))
  ELSE IF Head(name) = "." THEN name
  ELSE Ext(Tail(name))

\* strings.EqualFold
EqualFold(a, b) == ToLower(a) = ToLower(b)

\* strings.TrimSuffix
TrimSuffix(s, suffix) ==
  IF Len(suffix) <= Len(s) /\ SubSeq(s, Len(s) - Len(suffix) + 1, Len(s)) = suffix
  THEN SubSeq(s, 1, Len(s) - Len(suffix))
  ELSE s

IsDigit(c) == c \in {"0", "1", "2", "3"}

\* the digits s starts with
RECURSIVE DigitPrefix(_)
DigitPrefix(s) ==
  IF s # <<>> /\ IsDigit(Head(s)) THEN <<Head(s)>> \o DigitPrefix(Tail(s)) ELSE <<>>

\* digitPattern.FindString: the leftmost, longest run of digits, or ""
RECURSIVE digitPatternFindString(_)
digitPatternFindString(s) ==
  IF s = <<>> THEN <<>>
  ELSE IF IsDigit(Head(s)) THEN DigitPrefix(s)
  ELSE digitPatternFindString(Tail(s))

\* the number a run of digits denotes
RECURSIVE Decimal(_)
Decimal(ds) ==
  IF ds = <<>> THEN 0
  ELSE 10 * Decimal(SubSeq(ds, 1, Len(ds) - 1)) + (ByteOf(ds[Len(ds)]) - 48)

\* the largest int: the int of the model holds two decimal digits where the
\* int of the program holds eighteen
IntMax == 99

\* strconv.Atoi on a run of digits: it fails on a number no int holds
Atoi(ds) ==
  IF Decimal(ds) > IntMax THEN [num |-> 0, err |-> Err("value out of range")]
  ELSE [num |-> Decimal(ds), err |-> NoErr]

\* extractVolumeNumber
extractVolumeNumber(name) ==
  Let(digitPatternFindString(TrimSuffix(name, Ext(name))), LAMBDA match :
    IF match = <<>> THEN [number |-> 0, hasNumber |-> FALSE]
    ELSE IF Atoi(match).err # NoErr THEN [number |-> 0, hasNumber |-> FALSE]
    ELSE [number |-> Atoi(match).num, hasNumber |-> TRUE])

dirEntry(path, name, number, hasNumber) ==
  [path |-> path, name |-> name, number |-> number, hasNumber |-> hasNumber]

\* filepath.Join(dir, name)
Join(dir, name) == dir \o <<"/">> \o name

\* the comparison of lines 194-212 without its number branch
lessByNameOnly(a, b) ==
  IF ToLower(a.name) = ToLower(b.name) THEN StringLess(a.name, b.name)
  ELSE StringLess(ToLower(a.name), ToLower(b.name))

\* expandDirectories, lines 194-212: the comparison function of the sort
less(a, b) ==
  IF a.hasNumber /\ b.hasNumber
  THEN IF a.number # b.number THEN a.number < b.number
       ELSE StringLess(ToLower(a.name), ToLower(b.name))
  ELSE IF a.hasNumber # b.hasNumber THEN a.hasNumber
  ELSE IF ToLower(a.name) = ToLower(b.name) THEN StringLess(a.name, b.name)
  ELSE StringLess(ToLower(a.name), ToLower(b.name))

\* x put into the sorted sequence s behind every element that is not greater
RECURSIVE insertStable(_, _)
insertStable(s, x) ==
  IF s = <<>> THEN <<x>>
  ELSE IF less(x, Head(s)) THEN <<x>> \o s
  ELSE <<Head(s)>> \o insertStable(Tail(s), x)

\* sort.SliceStable with less: elements that compare equal keep their order
RECURSIVE sortSliceStable(_)
sortSliceStable(s) ==
  IF s = <<>> THEN <<>>
  ELSE insertStable(sortSliceStable(SubSeq(s, 1, Len(s) - 1)), s[Len(s)])

\* os.ReadDir: the entries of a directory, sorted by file name
RECURSIVE ReadDir(_)
ReadDir(entries) ==
  IF entries = {} THEN <<>>
  ELSE Let(CHOOSE e \in entries : \A o \in entries \ {e} : StringLess(e.name, o.name),
           LAMBDA first : <<first>> \o ReadDir(entries \ {first}))

\* expandDirectories, lines 177-192: the candidates among the listed entries
RECURSIVE candidatesOf(_, _)
candidatesOf(dir, listed) ==
  IF listed = <<>> THEN <<>>
  ELSE IF Head(listed).isDir THEN candidatesOf(dir, Tail(listed))
  ELSE IF ~EqualFold(Ext(Head(listed).name), <<".", "e", "p", "u", "b">>)
  THEN candidatesOf(dir, Tail(listed))
  ELSE Let(extractVolumeNumber(Head(listed).name), LAMBDA n :
         <<dirEntry(Join(dir, Head(listed).name), Head(listed).name, n.number, n.hasNumber)>>
           \o candidatesOf(dir, Tail(listed)))

\* expandDirectories, lines 172-215: the volumes one directory adds
volumesOfDir(dir, entries) ==
  Let(sortSliceStable(candidatesOf(dir, ReadDir(entries))), LAMBDA sorted :
    [i \in 1..Len(sorted) |-> sorted[i].path])

MaxDirs == 2

\* the entries all the scanned directories hold together
MaxEntries == 3

File(name) == [name |-> name, isDir |-> FALSE]

DotEpub == <<".", "e", "p", "u", "b">>

\* the entries a directory can hold
EntryPool ==
  { File(<<"v", "2">> \o DotEpub),
    File(<<"v", "1", "0">> \o DotEpub),
    File(<<"V", "2">> \o DotEpub),
    File(<<"v", "2", "0", "0">> \o DotEpub),
    File(<<"a">> \o DotEpub),
    File(<<"A", ".", "E", "P", "U", "B">>),
    File(<<"B">> \o DotEpub),
    File(<<"v", "1", ".", "t", "x", "t">>),
    [name |-> <<"d", "3">> \o DotEpub, isDir |-> TRUE] }

\* the path of the i-th directory given
DirPath(i) == <<"d", CASE i = 1 -> "1" [] i = 2 -> "2" [] OTHER -> "3">>

InitScan ==
  /\ call = [op |-> "scan", dirs |-> <<>>, volumes |-> <<>>]
  /\ disk = StartDisk(Absent, Absent, Absent)
  /\ pc = "sc:loop"
  /\ InitCommon

\* the entries of the directories scanned so far
RECURSIVE scannedEntries(_)
scannedEntries(dirs) ==
  IF dirs = <<>> THEN 0 ELSE Cardinality(Head(dirs)) + scannedEntries(Tail(dirs))

\* lines 172-215: one round of the loop, on a directory that can be read
ScanDir ==
  /\ pc = "sc:loop"
  /\ idx <= MaxDirs
  /\ \E entries \in SUBSET EntryPool :
       /\ scannedEntries(call.dirs) + Cardinality(entries) <= MaxEntries
       /\ call' = [call EXCEPT !.dirs = Append(@, entries),
                               !.volumes = @ \o volumesOfDir(DirPath(idx), entries)]
  /\ idx' = idx + 1
  /\ UNCHANGED <<pc, err, stats, compiled, vol, disk, tmpPath, disk0, log, edVars, streamVars>>

\* lines 173-176: os.ReadDir fails and no volume is returned
ScanDirError ==
  /\ pc = "sc:loop"
  /\ idx <= MaxDirs
  /\ call' = [call EXCEPT !.volumes = <<>>]
  /\ err' = Err("dir")
  /\ pc' = "done"
  /\ UNCHANGED <<stats, compiled, vol, disk, idx, tmpPath, disk0, log, edVars, streamVars>>

\* line 217: every directory is done
ScanReturn ==
  /\ pc = "sc:loop"
  /\ pc' = "done"
  /\ UNCHANGED <<call, err, stats, compiled, vol, disk, idx, tmpPath, disk0, log, edVars,
                 streamVars>>

NextScan ==
  \/ ScanDir
  \/ ScanDirError
  \/ ScanReturn

SpecScan == InitScan /\ [][NextScan]_vars

(***************************************************************************)
(* RewriteEPUB on the books above and on a book whose manifest lists one   *)
(* content document under two ids.  The loader reads the manifest as it is *)
(* written: the body loop of RewriteEPUB then visits the file twice.        *)
(***************************************************************************)
BookTwice ==
  Tree([Metadata |->
          [Titles |-> <<DCMeta("", <<"a">>)>>,
           Creators |-> <<>>,
           Languages |-> <<>>,
           Identifiers |-> <<>>,
           Descriptions |-> <<>>,
           Meta |-> <<>>],
        Manifest |-> <<ManifestItem("c1", "c1.xhtml", XHTML, ""),
                       ManifestItem("c1again", "c1.xhtml", XHTML, "")>>,
        Spine |-> <<"c1", "c1again">>],
       [h \in {"c1.xhtml"} |->
          XhtmlFile(<<StartTok(PPlain), TextTok(<<"a", "b">>), EndTok>>)])

InitRewriteAnyManifest ==
  /\ \E input \in {"", InputPath}, opts \in RewriteOptions :
       call = [op |-> "rewrite", input |-> input, opts |-> opts]
  /\ \E inputFile \in {Epub(b) : b \in Books \cup {BookTwice}} :
       disk = StartDisk(inputFile, Absent, Absent)
  /\ pc = "rw:args"
  /\ InitCommon

SpecRewrite == InitRewriteAnyManifest /\ [][RewriteEPUB]_vars

(***************************************************************************)
(* Properties.                                                             *)
(***************************************************************************)
\* has the call performed the file system operation op?
Logged(op) == \E i \in 1..Len(log) : log[i] = op

IsRewrite == call.op = "rewrite"

IsEdit == call.op = "edit"

\* the working tree as loadVolume extracted it from the input
InputTree == disk0[call.input].tree

\* every path but the working tree holds what it held when the call started
OutsideUntouched == \A p \in Paths \ {WorkDir} : disk[p] = disk0[p]

\* C1: a RewriteEPUB call with DryRun set, whatever its scope and rules, writes
\* nothing: it overwrites no content file of the working tree, mutates no value
\* of the package document, does not write the package document, creates no
\* temporary archive, packs nothing and renames nothing, and every path outside
\* the working tree (the input and the output path among them) holds what it
\* held before the call.
C1_DryRunWritesNothing ==
  (IsRewrite /\ call.opts.DryRun) =>
    /\ ~Logged("write content")
    /\ ~Logged("write package")
    /\ ~Logged("create temp")
    /\ ~Logged("pack")
    /\ ~Logged("rename")
    /\ OutsideUntouched
    /\ vol # Nil =>
         /\ Deref(vol).PackageDoc = InputTree.opf
         /\ pc # "done" => disk[WorkDir] = InputTree

\* a dry run over metadata and body that found matches and changed files
C1_Witness ==
  /\ IsRewrite
  /\ call.opts.DryRun
  /\ call.opts.Scope = RewriteScopeAll
  /\ pc = "done"
  /\ err = NoErr
  /\ stats.FilesChanged > 1
  /\ stats.MatchCount > 0

\* C5: a RewriteEPUB call without DryRun whose changed-file count is zero has
\* written nothing: no content file, no package document, no temporary archive,
\* no pack, no rename, and the input and the output path are as before.
C5_NoChangeNoWrite ==
  (IsRewrite /\ ~call.opts.DryRun /\ stats.FilesChanged = 0) =>
    /\ ~Logged("write content")
    /\ ~Logged("write package")
    /\ ~Logged("create temp")
    /\ ~Logged("pack")
    /\ ~Logged("rename")
    /\ OutsideUntouched

\* a real run over the whole book that returned without a changed file
C5_Witness ==
  /\ IsRewrite
  /\ ~call.opts.DryRun
  /\ call.opts.Scope = RewriteScopeAll
  /\ pc = "done"
  /\ err = NoErr
  /\ vol # Nil
  /\ stats.FilesChanged = 0

\* C6: a RewriteEPUB call without DryRun writes the package document only if
\* metadata changed: when it has written the package document, the metadata it
\* holds differ from the metadata of the input.
C6_PackageWrittenOnlyIfMetadataChanged ==
  (IsRewrite /\ ~call.opts.DryRun /\ Logged("write package")) =>
    Deref(vol).PackageDoc.Metadata # InputTree.opf.Metadata

\* a regex rule whose pattern regexp.Compile rejects
C7_BadRegex(r) == r.Regex /\ Contains(r.Find, "(")

\* the rule lists RewriteEPUB rejects
C7_BadRules(rules) ==
  \/ Len(rules) = 0
  \/ \E i \in 1..Len(rules) : rules[i].Find = <<>>
  \/ \E i \in 1..Len(rules) : C7_BadRegex(rules[i])

\* C7: RewriteEPUB with an empty rule list, a rule with an empty find or a
\* regex rule that does not compile never opens or extracts the input: it has
\* performed no file system operation, holds no volume, its stats are zero, the
\* file system is as before, and it returns an error, which for a regex that
\* does not compile carries the pattern handed to the compiler.
C7_RuleErrorsBeforeOpen ==
  (IsRewrite /\ C7_BadRules(call.opts.Rules)) =>
    /\ log = <<>>
    /\ vol = Nil
    /\ disk = disk0
    /\ stats = RewriteStats(0, 0)
    /\ pc = "done" => err # NoErr
    /\ err.msg = "compile regex" =>
         \E i \in 1..Len(call.opts.Rules) :
           /\ C7_BadRegex(call.opts.Rules[i])
           /\ err.pat = (IF call.opts.Rules[i].IgnoreCase
                         THEN <<InlineFlag>> \o call.opts.Rules[i].Find
                         ELSE call.opts.Rules[i].Find)

\* a call on an existing book that returned the regex error
C7_Witness ==
  /\ IsRewrite
  /\ call.input # ""
  /\ disk0[InputPath].kind = "epub"
  /\ pc = "done"
  /\ err.msg = "compile regex"

\* the destination of the call is a path (the call has an input or an output path)
HasDestination == outPathOf(call) \in Paths

\* how often the call has renamed
Renames == Cardinality({i \in 1..Len(log) : log[i] = "rename"})

\* the destination is only modified by one rename of a complete archive, a
\* failed call leaves it as it was, and no returned call leaves a temporary file
DestinationByRenameOnly ==
  /\ ~Logged("rename") => disk[outPathOf(call)] = disk0[outPathOf(call)]
  /\ Logged("rename") =>
       /\ Renames = 1
       /\ disk[outPathOf(call)].kind = "epub"
       /\ pc = "done"
       /\ err = NoErr
  /\ (pc = "done" /\ err # NoErr) => disk[outPathOf(call)] = disk0[outPathOf(call)]
  /\ pc = "done" => disk[TempPath] = Absent

\* C2 as stated: in every call of EditEPUB or RewriteEPUB the destination is
\* only modified by one rename of a completely written temporary archive; when
\* a step fails the destination holds what it held before, and the temporary
\* file is gone when the call has returned.
C2_Original == HasDestination => DestinationByRenameOnly

\* neither dump target of an EditEPUB call is the destination
DumpsElsewhere ==
  IsEdit => /\ call.opts.DumpMetaPath # outPathOf(call)
            /\ call.opts.DumpNavPath # outPathOf(call)

\* C2, amended: the same, for the calls whose dump targets do not name the
\* destination (a dump is written to its target directly, before the archive).
C2_DestinationOnlyByRename == (HasDestination /\ DumpsElsewhere) => DestinationByRenameOnly

\* an EditEPUB call over an existing destination whose pack failed
C2_Witness ==
  /\ IsEdit
  /\ DumpsElsewhere
  /\ call.opts.OutPath = OutputPath
  /\ disk0[OutputPath] # Absent
  /\ pc = "done"
  /\ err.msg = "write zip"
  /\ Logged("remove temp")

\* the five metadata lists rewriteMetadata and applyMetadataPatch work on
DCLists == {"Titles", "Creators", "Languages", "Identifiers", "Descriptions"}

\* the compiled rules of the call that have no selector
C9_Plain == SelectSeq(compiled, LAMBDA r : r.selectors = <<>>)

\* the rules, one after the other, on one value: its text and the matches
RECURSIVE C9_Fold(_, _)
C9_Fold(v, rules) ==
  IF rules = <<>> THEN [text |-> v, mc |-> 0]
  ELSE Let(applyRuleToText(v, Head(rules)), LAMBDA first :
         Let(C9_Fold(first.text, Tail(rules)), LAMBDA rest :
           [text |-> rest.text, mc |-> first.mc + rest.mc]))

\* the matches of the rules in the values of one list
RECURSIVE C9_Matches(_, _)
C9_Matches(nodes, rules) ==
  IF nodes = <<>> THEN 0
  ELSE C9_Fold(Head(nodes).Value, rules).mc + C9_Matches(Tail(nodes), rules)

C9_InMetaScope == call.opts.Scope \in {RewriteScopeMeta, RewriteScopeAll}

\* C9: once RewriteEPUB is past its metadata step, every entry of the five
\* metadata lists is the entry of the input with its value rewritten by exactly
\* the rules without selectors, in rule order, each value on its own (in a real
\* run in metadata scope; the entry of the input otherwise, so in body scope
\* nothing changes); the other metadata are as in the input; and the match count
\* after the step is the sum of those rules' matches over all values, rules with
\* selectors adding nothing.
C9_MetadataDispatch ==
  (IsRewrite /\ vol # Nil /\ pc # "rw:meta") =>
    /\ \A f \in DCLists :
         /\ Len(Deref(vol).PackageDoc.Metadata[f]) = Len(InputTree.opf.Metadata[f])
         /\ \A i \in 1..Len(InputTree.opf.Metadata[f]) :
              Deref(vol).PackageDoc.Metadata[f][i] =
                IF C9_InMetaScope /\ ~call.opts.DryRun
                THEN [InputTree.opf.Metadata[f][i] EXCEPT !.Value = C9_Fold(@, C9_Plain).text]
                ELSE InputTree.opf.Metadata[f][i]
    /\ Deref(vol).PackageDoc.Metadata.Meta = InputTree.opf.Metadata.Meta
    /\ (pc = "rw:body" /\ idx = 1) =>
         stats.MatchCount =
           IF C9_InMetaScope
           THEN C9_Matches(InputTree.opf.Metadata.Titles, C9_Plain)
                  + C9_Matches(InputTree.opf.Metadata.Creators, C9_Plain)
                  + C9_Matches(InputTree.opf.Metadata.Languages, C9_Plain)
                  + C9_Matches(InputTree.opf.Metadata.Identifiers, C9_Plain)
                  + C9_Matches(InputTree.opf.Metadata.Descriptions, C9_Plain)
           ELSE 0

\* a real run in metadata scope, just past the metadata step, whose rules are
\* one with a selector and one without, and which changed a value
C9_Witness ==
  /\ IsRewrite
  /\ ~call.opts.DryRun
  /\ call.opts.Scope = RewriteScopeAll
  /\ pc = "rw:body"
  /\ idx = 1
  /\ Len(compiled) = 2
  /\ compiled[1].selectors # <<>>
  /\ compiled[2].selectors = <<>>
  /\ stats.MatchCount > 0
  /\ Deref(vol).PackageDoc.Metadata.Titles # InputTree.opf.Metadata.Titles

\* a metadata entry that holds a value and nothing else
C10_Entry(v) == [ID |-> "", Role |-> "", FileAs |-> "", Value |-> v]

\* what a patch makes of the metadata lists before
C10_Patched(before, patch, after) ==
  /\ after.Titles = IF patch.Title = Nil THEN before.Titles ELSE <<C10_Entry(patch.Title[1])>>
  /\ after.Languages =
       IF patch.Language = Nil THEN before.Languages ELSE <<C10_Entry(patch.Language[1])>>
  /\ after.Descriptions =
       IF patch.Description = Nil THEN before.Descriptions
       ELSE <<C10_Entry(patch.Description[1])>>
  /\ after.Creators =
       IF patch.Creators = Nil THEN before.Creators
       ELSE [i \in 1..Len(patch.Creators[1]) |-> C10_Entry(patch.Creators[1][i])]
  /\ IF patch.Identifier = Nil THEN after.Identifiers = before.Identifiers
     ELSE IF before.Identifiers = <<>> THEN after.Identifiers = <<C10_Entry(patch.Identifier[1])>>
     ELSE /\ Len(after.Identifiers) = Len(before.Identifiers)
          /\ after.Identifiers[1].Value = patch.Identifier[1]
          /\ after.Identifiers[1].ID = before.Identifiers[1].ID
          /\ \A i \in 2..Len(before.Identifiers) : after.Identifiers[i] = before.Identifiers[i]

\* C10: once EditEPUB is past its patch step the metadata it holds are the
\* patch result: a present title, language or description has replaced its list
\* by the one entry holding the patch value, a present creator list has replaced
\* the creators by one entry per name in the given order, a present identifier
\* has replaced the value of the first identifier entry (its id and the later
\* entries kept) or, with no identifier entry, created the only one, and an
\* absent field has left its list alone; and after a successful edit that wrote
\* its archive, opening the archive at the destination yields these lists.
C10_PatchResult ==
  (/\ IsEdit
   /\ vol # Nil
   /\ \/ pc \in {"ed:nav", "ed:decide", "ed:writePackage", "ed:createTemp", "ed:writeZip",
                 "ed:rename"}
      \/ pc = "done" /\ err = NoErr) =>
    /\ C10_Patched(InputTree.opf.Metadata, call.opts.MetadataPatch,
                   Deref(vol).PackageDoc.Metadata)
    /\ (pc = "done" /\ Logged("rename")) =>
         /\ loadVolume(disk, outPathOf(call)).err = NoErr
         /\ C10_Patched(InputTree.opf.Metadata, call.opts.MetadataPatch,
                        Deref(loadVolume(disk, outPathOf(call)).vol).PackageDoc.Metadata)

\* a successful edit of a book with two identifier entries whose patch carries
\* an identifier, a title and creators, written over the input
C10_Witness ==
  /\ IsEdit
  /\ pc = "done"
  /\ err = NoErr
  /\ Logged("rename")
  /\ call.opts.OutPath = ""
  /\ call.opts.MetadataPatch.Identifier # Nil
  /\ call.opts.MetadataPatch.Title # Nil
  /\ call.opts.MetadataPatch.Creators # Nil
  /\ Len(disk0[InputPath].tree.opf.Metadata.Identifiers) = 2
  /\ disk[InputPath].tree.opf.Metadata.Identifiers[1].Value = <<"u">>

\* C8: compiling a rule never yields a selector without a tag and without a
\* class (such a selector string is rejected), so no rule that carries selectors
\* matches every element.
C8_NoEmptySelector ==
  \A i \in 1..Len(compiled) :
    \A j \in 1..Len(compiled[i].selectors) :
      ~(compiled[i].selectors[j].Tag = <<>> /\ compiled[i].selectors[j].Class = <<>>)

\* the rule list of one rule a -> b with the selector p.note
C4_Rules == <<Lit(<<"a">>, <<"b">>, FALSE, <<PNoteSel>>)>>

\* a p element (the tag compared without case) whose class attribute, split at
\* white space, contains note; the class attribute of an element is its first
\* attribute with the local name class
C4_IsPNote(el) ==
  /\ ToLower(el.Local) = <<"p">>
  /\ \E i \in 1..Len(Fields(classAttrOf(el))) : Fields(classAttrOf(el))[i] = Note

C3_ReplaceHoldsFind(r) ==
  IF r.Regex THEN reFindAllCount(Deref(regexpCompile(regexPattern(r))), r.Replace) > 0
  ELSE IF r.IgnoreCase THEN Index(ToLower(r.Replace), 0, ToLower(r.Find)) >= 0
  ELSE Index(r.Replace, 0, r.Find) >= 0

\* the second run over the file has returned
C3_SecondRunDone == call.op = "pass" /\ pc = "done" /\ err = NoErr

C3_Chars(s) == {ToLowerCh(s[i]) : i \in 1..Len(s)}

\* literal rules whose replacements are not empty and share no character, in
\* either case, with the find pattern of any rule of the list
C3_RulesApart(rules) ==
  /\ \A i \in 1..Len(rules) : ~rules[i].Regex /\ rules[i].Replace # <<>>
  /\ \A i, j \in 1..Len(rules) : C3_Chars(rules[i].Replace) \cap C3_Chars(rules[j].Find) = {}

\* a file without two text tokens in a row (no CDATA section next to text) and
\* without a namespace declaration that reads as a class attribute
C3_PlainFile(toks) ==
  /\ \A i \in 1..(Len(toks) - 1) : ~(toks[i].kind = "text" /\ toks[i + 1].kind = "text")
  /\ \A i \in 1..Len(toks) :
       toks[i].kind = "start" =>
         \A k \in 1..Len(toks[i].el.Attr) :
           ~(toks[i].el.Attr[k].Local = ClassName /\ toks[i].el.Attr[k].Space = "xmlns")

PastPatch ==
  \/ pc \in {"ed:nav", "ed:decide", "ed:writePackage", "ed:createTemp", "ed:writeZip",
             "ed:rename"}
  \/ pc = "done" /\ err = NoErr

\* the patch field that sets each metadata list
PatchField(f) ==
  CASE f = "Titles" -> "Title"
    [] f = "Languages" -> "Language"
    [] f = "Identifiers" -> "Identifier"
    [] f = "Descriptions" -> "Description"
    [] OTHER -> "Creators"

\* metadata after a patch, as the frame of the patch wants them: a list whose
\* field is absent is the list before, and a field present with an empty value
\* (or an empty creator list) has set its list to the empty value
C11_Frame(before, patch, after) ==
  /\ \A f \in DCLists : patch[PatchField(f)] = Nil => after[f] = before[f]
  /\ (patch.Title # Nil /\ patch.Title[1] = <<>>) =>
       Len(after.Titles) = 1 /\ after.Titles[1].Value = <<>>
  /\ (patch.Language # Nil /\ patch.Language[1] = <<>>) =>
       Len(after.Languages) = 1 /\ after.Languages[1].Value = <<>>
  /\ (patch.Description # Nil /\ patch.Description[1] = <<>>) =>
       Len(after.Descriptions) = 1 /\ after.Descriptions[1].Value = <<>>
  /\ (patch.Identifier # Nil /\ patch.Identifier[1] = <<>>) =>
       Len(after.Identifiers) >= 1 /\ after.Identifiers[1].Value = <<>>
  /\ (patch.Creators # Nil /\ patch.Creators[1] = <<>>) => after.Creators = <<>>

\* C11: once EditEPUB is past its patch step, every metadata list whose field is
\* absent from the patch is as it was in the input (so a patch with only a
\* description leaves titles, languages, identifiers and creators alone), and a
\* field that is present but empty has set the value to empty.
C11_PatchFrame ==
  (IsEdit /\ vol # Nil /\ PastPatch) =>
    C11_Frame(InputTree.opf.Metadata, call.opts.MetadataPatch, Deref(vol).PackageDoc.Metadata)

\* a successful edit of the book with every list filled, whose patch carries a
\* description and an empty language and nothing else
C11_Witness ==
  /\ IsEdit
  /\ pc = "done"
  /\ err = NoErr
  /\ Logged("rename")
  /\ call.opts.MetadataPatch =
       MetadataPatch(Nil, Ptr(<<>>), Nil, Ptr(<<"d">>), Nil)
  /\ Len(InputTree.opf.Metadata.Creators) = 2
  /\ Len(InputTree.opf.Metadata.Languages) = 1
  /\ InputTree.opf.Metadata.Languages[1].Value # <<>>

\* an EditEPUB call with an all-absent patch and no navigation replacement
DumpOnly ==
  /\ IsEdit
  /\ \A f \in DCLists : call.opts.MetadataPatch[PatchField(f)] = Nil
  /\ call.opts.NavReplacePath = ""

\* the errors of a call whose input could not be loaded or whose dump failed
C12_LoadOrDumpErrors ==
  {"input EPUB path is required", "open epub", "write snapshot", "nav document not found",
   "copy file"}

\* what a dump-only call does: it succeeds when the input loads and the dumps
\* can be written, never touches the package document it read (the timestamp
\* with it), never writes the package document and builds no archive
C12_ReadOnly ==
  /\ pc = "done" => (err = NoErr \/ err.msg \in C12_LoadOrDumpErrors)
  /\ vol # Nil => Deref(vol).PackageDoc = InputTree.opf
  /\ ~Logged("replace nav")
  /\ ~Logged("write package")
  /\ ~Logged("create temp")
  /\ ~Logged("pack")
  /\ ~Logged("rename")
  /\ disk[TempPath] = Absent

\* the input container and the output path hold what they held before the call
ContainersUntouched ==
  /\ call.input # "" => disk[call.input] = disk0[call.input]
  /\ disk[OutputPath] = disk0[OutputPath]

\* C12 as stated: a dump-only call, with or without dump targets and whatever
\* the touch flag, succeeds without touching the timestamp, without writing the
\* package document and without creating or replacing the output or the input
\* container.
C12_Original == DumpOnly => (C12_ReadOnly /\ ContainersUntouched)

\* no dump target of the call is its input or the output path
DumpsOffContainers ==
  /\ call.opts.DumpMetaPath \notin {call.input, OutputPath} \ {""}
  /\ call.opts.DumpNavPath \notin {call.input, OutputPath} \ {""}

\* C12, amended: the same for the dump-only calls whose dump targets name
\* neither the input nor the output path (a dump overwrites its target).
C12_DumpOnlyReadOnly == (DumpOnly /\ DumpsOffContainers) => (C12_ReadOnly /\ ContainersUntouched)

\* a dump-only call with both dumps and the touch flag that returned success
C12_Witness ==
  /\ DumpOnly
  /\ DumpsOffContainers
  /\ call.opts.TouchModified
  /\ pc = "done"
  /\ err = NoErr
  /\ Logged("dump meta")
  /\ Logged("dump nav")

\* EditEPUB is past the timestamp step of lines 92-94
PastTouch ==
  \/ pc \in {"ed:writePackage", "ed:createTemp", "ed:writeZip", "ed:rename"}
  \/ pc = "done" /\ err.msg \in {"write package", "create temp", "write zip", "rename"}
  \/ pc = "done" /\ err = NoErr /\ Logged("rename")

\* something changed: the patch carries a field, or the navigation document was
\* replaced
C13_Changed ==
  \/ \E f \in DCLists : call.opts.MetadataPatch[PatchField(f)] # Nil
  \/ Logged("replace nav")

\* is entry i the first dcterms:modified entry of meta entries m?
C13_FirstModified(m, i) ==
  /\ m[i].Property = "dcterms:modified"
  /\ \A k \in 1..(i - 1) : m[k].Property # "dcterms:modified"

\* the meta entries after are the entries before with the timestamp updated:
\* the value of the existing dcterms:modified entry set, or one such entry
\* appended when there is none, and every other entry as before
C13_Touched(before, after) ==
  IF \E i \in 1..Len(before) : before[i].Property = "dcterms:modified"
  THEN /\ Len(after) = Len(before)
       /\ \A i \in 1..Len(before) :
            IF C13_FirstModified(before, i)
            THEN \E stamp \in Stamps : after[i] = [before[i] EXCEPT !.Value = stamp]
            ELSE after[i] = before[i]
  ELSE /\ Len(after) = Len(before) + 1
       /\ SubSeq(after, 1, Len(before)) = before
       /\ after[Len(after)].Property = "dcterms:modified"
       /\ after[Len(after)].Value \in Stamps

C14_InputErrors ==
  {"input EPUB path is required", "no rewrite rules provided", "stat", "nav document not found"}

\* C14: when EditEPUB or RewriteEPUB returns an input error the call has written
\* no file: no dump target, no file of the working copy, no archive, and every
\* path outside the working copy holds what it held before.
C14_InputErrorsBeforeWrites ==
  (pc = "done" /\ err.msg \in C14_InputErrors) =>
    /\ OutsideUntouched
    /\ ~Logged("dump meta")
    /\ ~Logged("dump nav")
    /\ ~Logged("replace nav")
    /\ ~Logged("write content")
    /\ ~Logged("write package")
    /\ ~Logged("pack")

\* the rules of rules that are active under the rule states states, in order
RECURSIVE C19_Applied(_, _, _)
C19_Applied(rules, states, i) ==
  IF i > Len(rules) THEN <<>>
  ELSE IF selectorInactive(rules[i], states[i]) THEN C19_Applied(rules, states, i + 1)
  ELSE <<rules[i]>> \o C19_Applied(rules, states, i + 1)

\* the text as it stands when the first k rules of rs have run on it in turn
RECURSIVE C19_TextAfter(_, _, _)
C19_TextAfter(text, rs, k) ==
  IF k = 0 THEN text ELSE applyRuleToText(C19_TextAfter(text, rs, k - 1), rs[k]).text

\* the matches rule k of rs finds in the text as it stands when the rule runs
C19_Found(text, rs, k) == applyRuleToText(C19_TextAfter(text, rs, k - 1), rs[k]).mc

RECURSIVE C19_FoundUpTo(_, _, _)
C19_FoundUpTo(text, rs, k) ==
  IF k = 0 THEN 0 ELSE C19_FoundUpTo(text, rs, k - 1) + C19_Found(text, rs, k)

\* one step of the token loop, from the pass state before to the one after:
\* a text token is written as the text the applied rules leave when run in
\* order, each on the output of the one before, and adds to the match count the
\* matches each of them found; any other token leaves the match count alone
C19_Step ==
  (pc = "st:loop" /\ Len(call'.toks) = Len(call.toks) + 1) =>
    LET tok == call'.toks[Len(call'.toks)]
        rs == C19_Applied(compiled, ps.states, 1)
    IN  IF tok.kind = "text"
        THEN /\ ps'.out = Append(ps.out, TextTok(C19_TextAfter(tok.data, rs, Len(rs))))
             /\ ps'.totalMatches = ps.totalMatches + C19_FoundUpTo(tok.data, rs, Len(rs))
        ELSE ps'.totalMatches = ps.totalMatches

\* C19: on every text token the rules active at that point are applied in their
\* given order, each to the output of the previous one, the inactive ones being
\* skipped, and the match count of the file grows by the sum of the matches each
\* applied rule found in the text as it stood when that rule ran.
C19_RulesChained == [][C19_Step]_vars

\* the file is one text token "a" under the rules a -> b, b -> a: the second
\* rule has seen the first one's replacement, so the text is "a" again and two
\* matches are counted
C19_Witness ==
  /\ call.op = "pass"
  /\ Len(call.rules) = 2
  /\ call.rules[1].Find = <<"a">>
  /\ call.rules[2].Find = <<"b">>
  /\ call.toks = <<TextTok(<<"a">>)>>
  /\ ps.out = <<TextTok(<<"a">>)>>
  /\ ps.totalMatches = 2

\* do the characters of t from offset i on (0-based) spell f, case aside?
C20_MatchAt(t, i, f) ==
  /\ i + Len(f) <= Len(t)
  /\ \A k \in 1..Len(f) : ToLower(t[i + k]) = ToLower(f[k])

\* the text t with each leftmost non-overlapping case-insensitive occurrence of
\* f replaced by repl and every other character kept as it is
RECURSIVE C20_Replaced(_, _, _)
C20_Replaced(t, f, repl) ==
  IF t = <<>> THEN <<>>
  ELSE IF C20_MatchAt(t, 0, f) THEN repl \o C20_Replaced(SubSeq(t, Len(f) + 1, Len(t)), f, repl)
  ELSE Head(t) \o C20_Replaced(Tail(t), f, repl)

\* the number of those occurrences
RECURSIVE C20_Occurrences(_, _)
C20_Occurrences(t, f) ==
  IF t = <<>> THEN 0
  ELSE IF C20_MatchAt(t, 0, f) THEN 1 + C20_Occurrences(SubSeq(t, Len(f) + 1, Len(t)), f)
  ELSE C20_Occurrences(Tail(t), f)

\* C20: for every text and every non-empty find string the literal
\* case-insensitive replace returns, and returns the text with each leftmost
\* non-overlapping case-insensitive occurrence of the find string replaced and
\* every other character kept, and counts those occurrences.
C20_CaseInsensitiveReplace ==
  (call.op = "text" /\ pc \in {"done", "panicked"}) =>
    /\ pc = "done"
    /\ lastText.text = C20_Replaced(call.text, call.find, call.rules[1].Replace)
    /\ stats.MatchCount = C20_Occurrences(call.text, call.find)

\* is a directory entry a volume: not a directory, extension .epub in any case
C18_IsVolume(e) == ~e.isDir /\ ToLower(Ext(e.name)) = DotEpub

\* the first run of digits in the base name
C18_Digits(name) == digitPatternFindString(TrimSuffix(name, Ext(name)))

\* does the name count as numbered?  With fits set, only when an int holds the
\* number
C18_Numbered(name, fits) ==
  /\ C18_Digits(name) # <<>>
  /\ fits => Decimal(C18_Digits(name)) <= IntMax

C18_Number(name) == Decimal(C18_Digits(name))

\* the order of the names: numbered names first, in ascending order of their
\* number and, for the same number, of the lower-cased name; then the names
\* without a number in ascending order of the lower-cased name and, for the
\* same lower-cased name, of the exact name
C18_Precedes(a, b, fits) ==
  IF C18_Numbered(a, fits) /\ C18_Numbered(b, fits)
  THEN \/ C18_Number(a) < C18_Number(b)
       \/ C18_Number(a) = C18_Number(b) /\ StringLess(ToLower(a), ToLower(b))
  ELSE IF C18_Numbered(a, fits) # C18_Numbered(b, fits) THEN C18_Numbered(a, fits)
  ELSE \/ StringLess(ToLower(a), ToLower(b))
       \/ ToLower(a) = ToLower(b) /\ StringLess(a, b)

\* the volume names of a set of directory entries
C18_VolumeNames(entries) == {e.name : e \in {x \in entries : C18_IsVolume(x)}}

\* the paths expected of the directories dirs, the first of them being the
\* i-th directory given
RECURSIVE C18_PathSets(_, _)
C18_PathSets(dirs, i) ==
  IF dirs = <<>> THEN {}
  ELSE {Join(DirPath(i), n) : n \in C18_VolumeNames(Head(dirs))} \cup C18_PathSets(Tail(dirs), i + 1)

\* the directory and the name of a path made by Join
C18_DirOf(path) == SubSeq(path, 1, 2)

C18_NameOf(path) == SubSeq(path, 4, Len(path))

\* C18: the volumes expandDirectories returns are exactly the volume entries
\* of the directories, directory by directory in the order given, and in each
\* directory in the order of the names, every name with a digit in its base
\* name counting as numbered
C18_Original ==
  (call.op = "scan" /\ pc = "done" /\ err = NoErr) =>
    LET v == call.volumes
    IN  /\ {v[i] : i \in 1..Len(v)} = C18_PathSets(call.dirs, 1)
        /\ Cardinality(C18_PathSets(call.dirs, 1)) = Len(v)
        /\ \A i, j \in 1..Len(v) :
             i < j =>
               /\ ~StringLess(C18_DirOf(v[j]), C18_DirOf(v[i]))
               /\ C18_DirOf(v[i]) = C18_DirOf(v[j]) =>
                    ~C18_Precedes(C18_NameOf(v[j]), C18_NameOf(v[i]), FALSE)

\* the full order: what C18_Precedes leaves undecided goes by the exact name
C18_Total(a, b) ==
  \/ C18_Precedes(a, b, TRUE)
  \/ ~C18_Precedes(b, a, TRUE) /\ StringLess(a, b)

\* the names of a set in that order
RECURSIVE C18_InOrder(_)
C18_InOrder(names) ==
  IF names = {} THEN <<>>
  ELSE Let(CHOOSE n \in names : \A o \in names \ {n} : C18_Total(n, o),
           LAMBDA first : <<first>> \o C18_InOrder(names \ {first}))

\* the volumes expected of the directories dirs, which depend on nothing but
\* the sets of entries
RECURSIVE C18_Expected(_, _)
C18_Expected(dirs, i) ==
  IF dirs = <<>> THEN <<>>
  ELSE Let(C18_InOrder(C18_VolumeNames(Head(dirs))), LAMBDA names :
         [k \in 1..Len(names) |-> Join(DirPath(i), names[k])])
       \o C18_Expected(Tail(dirs), i + 1)

\* the candidate expandDirectories makes of a name
C18_Candidate(name) ==
  dirEntry(name, name, extractVolumeNumber(name).number, extractVolumeNumber(name).hasNumber)

\* the comparison is a strict weak ordering on the candidates of names
C18_StrictWeak(names) ==
  LET c == {C18_Candidate(n) : n \in names}
      same(x, y) == ~less(x, y) /\ ~less(y, x)
  IN  /\ \A x \in c : ~less(x, x)
      /\ \A x, y, z \in c : (less(x, y) /\ less(y, z)) => less(x, z)
      /\ \A x, y, z \in c : (same(x, y) /\ same(y, z)) => same(x, z)

\* With a name counting as numbered only when an int holds its first number,
\* the volumes expandDirectories has collected are, directory by directory in
\* the order given, exactly the entries that are no directory and have the
\* extension .epub in any case, the names whose first number fits an int first
\* in ascending order of that number (then of the lower-cased name, then of the
\* exact name), the other names after them in ascending order of the
\* lower-cased name (then of the exact name); the comparison is a strict weak
\* ordering, and the result depends on nothing but the entries of the
\* directories.
C18_ScanOrder ==
  (call.op = "scan" /\ err = NoErr) =>
    /\ call.volumes = C18_Expected(call.dirs, 1)
    /\ \A i \in 1..Len(call.dirs) : C18_StrictWeak(C18_VolumeNames(call.dirs[i]))

\* a directory with v2.epub, a.epub and v200.epub, whose number no int holds:
\* v200.epub comes after a.epub
C18_Witness ==
  /\ call.op = "scan"
  /\ pc = "done"
  /\ err = NoErr
  /\ call.volumes = << Join(DirPath(1), <<"v", "2">> \o DotEpub),
                       Join(DirPath(1), <<"a">> \o DotEpub),
                       Join(DirPath(1), <<"v", "2", "0", "0">> \o DotEpub) >>

\* is what path p holds a complete archive whose first entry is named mimetype,
\* is stored without compression and holds exactly application/epub+zip, every
\* other entry coming after it?
C17_WellPacked(p) ==
  /\ disk[p].kind = "epub"
  /\ Len(disk[p].entries) >= 1
  /\ disk[p].entries[1].name = "mimetype"
  /\ disk[p].entries[1].method = "store"
  /\ disk[p].entries[1].content = "application/epub+zip"
  /\ \A i \in 2..Len(disk[p].entries) : disk[p].entries[i].method = "deflate"

C15_Processed == idx - 1

\* the manifest ids expected of the first n volumes: for every item, in order,
\* "v", the sequence number of its volume, "-" and the original id
RECURSIVE C15_ExpectedIDs(_, _)
C15_ExpectedIDs(volumes, n) ==
  IF n = 0 THEN <<>>
  ELSE C15_ExpectedIDs(volumes, n - 1)
       \o [i \in 1..Len(volumes[n].tree.opf.Manifest) |->
             <<"v">> \o Itoa(n) \o <<"-">> \o volumes[n].tree.opf.Manifest[i].ID]

\* the ids of the manifest m are those expected of the first n volumes, with
\* that of the generated navigation item after them once it is there, and no
\* two items of m share an id
C15_Distinct(m, volumes, n) ==
  /\ \A i, j \in 1..Len(m) : i # j => m[i].ID # m[j].ID
  /\ LET ids == [i \in 1..Len(m) |-> m[i].ID]
         expected == C15_ExpectedIDs(volumes, n)
     IN  \/ ids = expected
         \/ Len(ids) = Len(expected) + 1
            /\ SubSeq(ids, 1, Len(expected)) = expected
            /\ m[Len(m)].Properties = "nav"

\* C15: the manifest MergeEPUBs builds, and the manifest of the archive a
\* successful merge wrote, holds pairwise distinct ids, each made of the
\* sequence number of its volume and the original id, and the id of the
\* generated navigation item, also when volumes use the same original id.
C15_DistinctManifestIDs ==
  (call.op = "merge" /\ vol # Nil) =>
    /\ C15_Distinct(Deref(vol).PackageDoc.Manifest, call.volumes, C15_Processed)
    /\ (pc = "done" /\ err = NoErr) =>
         C15_Distinct(disk[OutputPath].tree.opf.Manifest, call.volumes, Len(call.volumes))

\* a successful merge of two volumes that both have an item with the id c1
C15_Witness ==
  /\ call.op = "merge"
  /\ call.volumes = <<Epub(VolA), Epub(VolB)>>
  /\ pc = "done"
  /\ err = NoErr
  /\ Logged("rename")
  /\ Len(disk[OutputPath].tree.opf.Manifest) = 6

\* where the spine entries of the first n volumes come from: for every entry,
\* in order, the sequence number of its volume and the original idref
RECURSIVE C16_Origins(_, _)
C16_Origins(volumes, n) ==
  IF n = 0 THEN <<>>
  ELSE C16_Origins(volumes, n - 1)
       \o [i \in 1..Len(volumes[n].tree.opf.Spine) |->
             [seq |-> n, idref |-> volumes[n].tree.opf.Spine[i]]]

\* the manifest items of the volumes before the k-th
RECURSIVE C16_ItemsBefore(_, _)
C16_ItemsBefore(volumes, k) ==
  IF k = 1 THEN 0
  ELSE C16_ItemsBefore(volumes, k - 1) + Len(volumes[k - 1].tree.opf.Manifest)

\* the place in its manifest of the item of volume k with the id id
C16_PlaceOf(volumes, k, id) ==
  CHOOSE i \in 1..Len(volumes[k].tree.opf.Manifest) : volumes[k].tree.opf.Manifest[i].ID = id

\* the spine of pkg is the spines of the first n volumes one after the other,
\* every entry naming the merged manifest item that was made of the item the
\* original entry named
C16_Concatenated(pkg, volumes, n) ==
  LET origins == C16_Origins(volumes, n)
  IN  /\ Len(pkg.Spine) = Len(origins)
      /\ \A p \in 1..Len(origins) :
           LET place == C16_ItemsBefore(volumes, origins[p].seq)
                          + C16_PlaceOf(volumes, origins[p].seq, origins[p].idref)
           IN  /\ pkg.Manifest[place].ID = pkg.Spine[p]
               /\ \A i \in 1..Len(pkg.Manifest) : pkg.Manifest[i].ID = pkg.Spine[p] => i = place

\* C16: the spine MergeEPUBs builds, and the spine of the archive a successful
\* merge wrote, has as many entries as the spines of the volumes together: the
\* entries of the volumes in volume order and in their original order, each
\* idref rewritten so that it names the item of the merged manifest that was
\* made of the item it named.
C16_SpineConcatenated ==
  (call.op = "merge" /\ vol # Nil) =>
    /\ C16_Concatenated(Deref(vol).PackageDoc, call.volumes, C15_Processed)
    /\ (pc = "done" /\ err = NoErr) =>
         C16_Concatenated(disk[OutputPath].tree.opf, call.volumes, Len(call.volumes))

\* a successful merge of three volumes with one, three and one spine entries
C16_Witness ==
  /\ call.op = "merge"
  /\ call.volumes = <<Epub(VolB), Epub(VolA), Epub(VolB)>>
  /\ pc = "done"
  /\ err = NoErr
  /\ Logged("rename")
  /\ Len(disk[OutputPath].tree.opf.Spine) = 5

\* has some text node read so far come out of the rules with another content?
C21_SomeTextDiffers ==
  \E i \in 1..Len(call.toks) :
    /\ call.toks[i].kind = "text"
    /\ ps.out[i].data # call.toks[i].data

\* C21: the pass reports its file changed, and hands back bytes to overwrite it
\* with, exactly when the content of at least one text node differs after the
\* rules from what it was; a file that is not reported changed stays as it is,
\* whatever its match count.
C21_ChangedIffTextDiffers ==
  (call.op = "pass" /\ pc # "st:compile") =>
    /\ Len(ps.out) = Len(call.toks)
    /\ passResult(ps).changed <=> C21_SomeTextDiffers
    /\ (passResult(ps).rewritten # Nil) <=> C21_SomeTextDiffers
    /\ ~C21_SomeTextDiffers => fileAfter(call.toks, passResult(ps)) = call.toks

\* the rules a -> b, b -> a have matched twice in the one text node "a" and
\* left it as it was: the pass has returned two matches and no change
C21_Witness ==
  /\ call.op = "pass"
  /\ pc = "st:returned"
  /\ call.toks = <<TextTok(<<"a">>)>>
  /\ passResult(ps).matches = 2
  /\ ~passResult(ps).changed
  /\ passResult(ps).rewritten = Nil

\* the number of true entries of a depth stack
C22_TrueEntries(depthStack) ==
  Cardinality({k \in 1..Len(depthStack) : depthStack[k]})

\* one rule's tracker agrees with the elements that are open: one entry per
\* open element, holding whether the rule's selector matched that element,
\* and a counter equal to the number of true entries
C22_Tracks(i) ==
  LET st == ps.states[i] IN
  /\ st.active = C22_TrueEntries(st.depthStack)
  /\ st.active >= 0
  /\ Len(st.depthStack) = Len(ps.stack)
  /\ Len(st.depthStack) = Len(openEls)
  /\ \A k \in 1..Len(openEls) :
       st.depthStack[k] <=> selectorMatches(compiled[i], openEls[k])

\* C22: after every token of the pass and for every rule, the active counter
\* is the number of true entries of the rule's depth stack and is not
\* negative, and the depth stack has one entry per open element, the entry
\* pushed by that element's start; when the pass has read a whole document
\* every depth stack is empty and every counter is 0.
C22_TrackerInvariant ==
  (call.op = "pass" /\ pc # "st:compile") =>
    /\ Len(ps.states) = Len(compiled)
    /\ \A i \in 1..Len(compiled) : C22_Tracks(i)
    /\ pc = "st:returned" =>
         \A i \in 1..Len(compiled) : ps.states[i] = ruleState(<<>>, 0)

\* a document with an element inside an element the selector of the first
\* rule matches has been read to its end: the trackers are back where they
\* started
C22_Witness ==
  /\ call.op = "pass"
  /\ pc = "st:returned"
  /\ Len(call.toks) = 4
  /\ Len(compiled[1].selectors) > 0
  /\ call.toks[1].kind = "start"
  /\ selectorMatches(compiled[1], call.toks[1].el)
  /\ call.toks[2].kind = "start"
  /\ ~selectorMatches(compiled[1], call.toks[2].el)
  /\ ps.states[1] = ruleState(<<>>, 0)

\* what the body loop of a call that writes no content file adds to the
\* stats from manifest item i on: every pass reads the file as the input has it
RECURSIVE C23_DryBody(_, _, _)
C23_DryBody(tree, rules, i) ==
  IF i > Len(tree.opf.Manifest) THEN RewriteStats(0, 0)
  ELSE Let(C23_DryBody(tree, rules, i + 1), LAMBDA rest :
         IF tree.opf.Manifest[i].MediaType # XHTML THEN rest
         ELSE Let(rewriteXHTMLFile(tree.files[tree.opf.Manifest[i].Href].toks, rules),
                  LAMBDA r :
                RewriteStats(rest.FilesChanged + (IF r.changed THEN 1 ELSE 0),
                             rest.MatchCount + r.matches)))

\* what the metadata step of a call that mutates nothing adds to the stats
C23_DryMeta(tree, rules) ==
  Let(rewriteMetadata(tree.opf.Metadata, metadataApplicableRules(rules), FALSE), LAMBDA r :
    RewriteStats(IF r.changed THEN 1 ELSE 0, r.matches))

\* the stats RewriteEPUB returns for the call's book, scope and rules when
\* DryRun is set
C23_DryRunStats ==
  LET inMeta == call.opts.Scope \in {RewriteScopeMeta, RewriteScopeAll}
      inBody == call.opts.Scope \in {RewriteScopeBody, RewriteScopeAll}
      m == IF inMeta THEN C23_DryMeta(InputTree, compiled) ELSE RewriteStats(0, 0)
      b == IF inBody THEN C23_DryBody(InputTree, compiled, 1) ELSE RewriteStats(0, 0)
  IN  RewriteStats(m.FilesChanged + b.FilesChanged, m.MatchCount + b.MatchCount)

\* C23: a RewriteEPUB call that returns without error returns, with DryRun
\* set or not, the match count and the number of changed files that the call
\* with DryRun set returns for the same book, scope and rules.
C23_DryRunPredicts ==
  (IsRewrite /\ pc = "done" /\ err = NoErr) => stats = C23_DryRunStats

\* a call with DryRun set has returned stats with matches in them
C23_DryRunReturned ==
  /\ IsRewrite
  /\ pc = "done"
  /\ err = NoErr
  /\ call.opts.DryRun
  /\ stats.MatchCount > 0
  /\ stats = C23_DryRunStats

====
